---------------------------- MODULE Spec2Model ----------------------------
(***************************************************************************)
(* Model of the dmx_analyzer package: the Time Codec (_format_time and     *)
(* _time_to_seconds), the Event Model (DMXEvent.validate_start_time), the  *)
(* Timeline Aggregate (DMXTimeline.add_event / to_tml_format) and the two  *)
(* event generators (TimelineGenerator, SpectacularTimelineGenerator).     *)
(*                                                                         *)
(* Python floats are IEEE-754 binary64 values.  They are modelled bit for  *)
(* bit: a float is a sign, an integer part and a binary fraction of fixed    *)
(* width, and every arithmetic operation computes the exact result and    *)
(* rounds it to MantDig significant bits, ties to even.  Python strings    *)
(* are sequences of one-character strings.                                 *)
(***************************************************************************)
EXTENDS Integers, Sequences, FiniteSets, TLC

(***************************************************************************)
(* Natural numbers of arbitrary size: little-endian sequences of limbs,    *)
(* digits in base LimbBase = 2^LimbBits.                                   *)
(***************************************************************************)
LimbBits == 15
LimbBase == 32768

Pow2(k) == <<1, 2, 4, 8, 16, 32, 64, 128, 256, 512, 1024, 2048, 4096, 8192,
             16384, 32768>>[k + 1]

Zeros(k) == [i \in 1..k |-> 0]

Reverse(s) == [i \in 1..Len(s) |-> s[Len(s) + 1 - i]]

LimbAt(b, i) == IF i >= 1 /\ i <= Len(b) THEN b[i] ELSE 0

\* number of significant limbs
BLimbs(b) == IF \E i \in 1..Len(b) : b[i] # 0
             THEN CHOOSE i \in 1..Len(b) : b[i] # 0 /\ \A j \in (i+1)..Len(b) : b[j] = 0
             ELSE 0

BTrim(b) == SubSeq(b, 1, BLimbs(b))

\* number of significant bits of a limb, and of a number
LimbLen(v) == CHOOSE k \in 0..LimbBits : v < Pow2(k) /\ (k = 0 \/ v >= Pow2(k - 1))

BLen(b) == IF BLimbs(b) = 0 THEN 0
           ELSE LimbBits * (BLimbs(b) - 1) + LimbLen(b[BLimbs(b)])

\* bit p of b, the bit of weight 2^p
BitAt(b, p) == (LimbAt(b, (p \div LimbBits) + 1) \div Pow2(p % LimbBits)) % 2

\* 2^p
BPow2(p) == Append(Zeros(p \div LimbBits), Pow2(p % LimbBits))

RECURSIVE NatToBig(_)
NatToBig(n) == IF n = 0 THEN <<>> ELSE <<n % LimbBase>> \o NatToBig(n \div LimbBase)

RECURSIVE BigToNat(_)
BigToNat(b) == IF b = <<>> THEN 0 ELSE b[1] + LimbBase * BigToNat(Tail(b))

RECURSIVE BAddAcc(_, _, _, _, _)
BAddAcc(a, b, i, carry, acc) ==
    IF i > Len(a) /\ i > Len(b)
    THEN IF carry = 0 THEN acc ELSE Append(acc, carry)
    ELSE LET t == LimbAt(a, i) + LimbAt(b, i) + carry
         IN  BAddAcc(a, b, i + 1, t \div LimbBase, Append(acc, t % LimbBase))

BAdd(a, b) == BAddAcc(a, b, 1, 0, <<>>)

\* a - b for a >= b
RECURSIVE BSubAcc(_, _, _, _, _)
BSubAcc(a, b, i, borrow, acc) ==
    IF i > Len(a)
    THEN acc
    ELSE LET t == LimbAt(a, i) - LimbAt(b, i) - borrow
         IN  BSubAcc(a, b, i + 1, IF t < 0 THEN 1 ELSE 0,
                     Append(acc, IF t < 0 THEN t + LimbBase ELSE t))

BSub(a, b) == BSubAcc(a, b, 1, 0, <<>>)

BLess(a, b) ==
    \E i \in 1..Len(b) :
        /\ LimbAt(a, i) < b[i]
        /\ \A j \in (i+1)..(IF Len(a) > Len(b) THEN Len(a) ELSE Len(b)) :
               LimbAt(a, j) = LimbAt(b, j)

\* a * k for a natural k < 2^16
RECURSIVE BMulSmallAcc(_, _, _, _, _)
BMulSmallAcc(a, k, i, carry, acc) ==
    IF i > Len(a)
    THEN acc \o NatToBig(carry)
    ELSE LET t == k * a[i] + carry
         IN  BMulSmallAcc(a, k, i + 1, t \div LimbBase, Append(acc, t % LimbBase))

BMulSmall(a, k) == BMulSmallAcc(a, k, 1, 0, <<>>)

RECURSIVE BMulAcc(_, _, _, _)
BMulAcc(a, b, i, acc) ==
    IF i > Len(b)
    THEN acc
    ELSE BMulAcc(a, b, i + 1, BAdd(acc, Zeros(i - 1) \o BMulSmall(a, b[i])))

BMul(a, b) == BMulAcc(a, b, 1, <<>>)

\* long division of the number with remainder r above the limbs (most
\* significant first) by a natural m <= 2^16
RECURSIVE LongDiv(_, _, _, _)
LongDiv(r, m, limbs, acc) ==
    IF limbs = <<>>
    THEN [q |-> acc, r |-> r]
    ELSE LET t == LimbBase * r + Head(limbs)
         IN  LongDiv(t % m, m, Tail(limbs), Append(acc, t \div m))

(***************************************************************************)
(* Python float: IEEE-754 binary64.  A float is [neg, ip, fr]: the sign,   *)
(* the integer part of the magnitude and its fraction as FracLimbs limbs,  *)
(* fr[1] the most significant.  The magnitudes the model computes lie in   *)
(* [2^-22, 2^30), where every binary64 value has at most                   *)
(* FracLimbs * LimbBits fraction bits, so the representation is exact.     *)
(***************************************************************************)
MantDig == 53
FracLimbs == 5

FZero == [neg |-> FALSE, ip |-> 0, fr |-> Zeros(FracLimbs)]

IsZero(x) == x.ip = 0 /\ x.fr = Zeros(FracLimbs)

\* the magnitude of x as a natural number scaled by 2^(FracLimbs * LimbBits)
ToBig(x) == Reverse(x.fr) \o NatToBig(x.ip)

FromBig(neg, b) ==
    [neg |-> neg /\ BLimbs(b) # 0,
     ip  |-> BigToNat(SubSeq(b, FracLimbs + 1, BLimbs(b))),
     fr  |-> [i \in 1..FracLimbs |-> LimbAt(b, FracLimbs + 1 - i)]]

\* b without its drop lowest bits, rounded to nearest, ties to even;
\* sticky says that the exact value has further non-zero bits below those
\* of b
RoundAt(b, sticky, drop) ==
    IF drop <= 0
    THEN BTrim(b)
    ELSE LET cut  == (drop \div LimbBits) + 1
             unit == Pow2(drop % LimbBits)
             keep == [i \in 1..Len(b) |->
                         IF i < cut THEN 0
                         ELSE IF i = cut THEN (b[i] \div unit) * unit
                         ELSE b[i]]
             rnd  == BitAt(b, drop - 1)
             st   == \/ sticky
                     \/ \E p \in 0..(drop - 2) : BitAt(b, p) = 1
             up   == rnd = 1 /\ (st \/ BitAt(b, drop) = 1)
         IN  BTrim(BAdd(keep, IF up THEN BPow2(drop) ELSE <<>>))

\* round to MantDig significant bits
RoundBig(b, sticky) == RoundAt(b, sticky, BLen(b) - MantDig)

\* n / m for integer-valued floats n >= 0, 0 < m <= 2^16 (also the value
\* of the decimal literal n/m): long division, then one rounding
FromRatio(n, m) ==
    LET d == LongDiv(n % m, m, Zeros(FracLimbs), <<>>)
    IN  FromBig(FALSE, RoundBig(Reverse(d.q) \o NatToBig(n \div m), d.r # 0))

FromInt(n) == [neg |-> n < 0, ip |-> IF n < 0 THEN -n ELSE n, fr |-> Zeros(FracLimbs)]

FNeg(x) == [x EXCEPT !.neg = ~x.neg /\ ~IsZero(x)]

\* x + y
FAdd(x, y) ==
    LET a == ToBig(x)
        b == ToBig(y)
    IN  FromBig(IF x.neg = y.neg \/ ~BLess(a, b) THEN x.neg ELSE y.neg,
                RoundBig(IF x.neg = y.neg THEN BAdd(a, b)
                         ELSE IF BLess(a, b) THEN BSub(b, a)
                         ELSE BSub(a, b), FALSE))

FSub(x, y) == FAdd(x, FNeg(y))

\* x * y
FMul(x, y) ==
    LET p == RoundBig(BMul(ToBig(x), ToBig(y)), FALSE)
    IN  FromBig(x.neg # y.neg, SubSeq(p, FracLimbs + 1, Len(p)))

\* x * k for an integer 0 <= k < 2^16
FMulInt(x, k) == FromBig(x.neg, RoundBig(BMulSmall(ToBig(x), k), FALSE))

\* x / k for an integer 0 < k <= 2^16
FDivInt(x, k) ==
    LET d == LongDiv(x.ip % k, k, x.fr, <<>>)
    IN  FromBig(x.neg, RoundBig(Reverse(d.q) \o NatToBig(x.ip \div k), d.r # 0))

FLess(x, y) ==
    IF x.neg # y.neg THEN x.neg
    ELSE IF x.neg THEN BLess(ToBig(y), ToBig(x))
    ELSE BLess(ToBig(x), ToBig(y))

FLeq(x, y) == ~FLess(y, x)

\* int(x): truncation toward zero
FTrunc(x) == IF x.neg THEN -x.ip ELSE x.ip

\* x // n and x % n for a float x and an integer-valued float n > 0
\* (CPython float_floor_div / float_rem: fmod is exact, and a non-zero
\* remainder of a negative x has n added to it, which rounds)
FFloorDiv(x, n) ==
    IF ~x.neg THEN x.ip \div n
    ELSE IF x.ip % n = 0 /\ x.fr = Zeros(FracLimbs) THEN -(x.ip \div n)
    ELSE -(x.ip \div n) - 1

FMod(x, n) ==
    LET m == [neg |-> FALSE, ip |-> x.ip % n, fr |-> x.fr]
    IN  IF ~x.neg \/ IsZero(m) THEN m ELSE FSub(FromInt(n), m)

(***************************************************************************)
(* Python str: a sequence of one-character strings.                        *)
(***************************************************************************)
Digits == <<"0", "1", "2", "3", "4", "5", "6", "7", "8", "9">>

IsDigit(c) == \E i \in 1..10 : Digits[i] = c

DigitVal(c) == (CHOOSE i \in 1..10 : Digits[i] = c) - 1

\* str.split(sep): the pieces between the separators, at least one piece
RECURSIVE Split(_, _)
Split(s, sep) ==
    IF \E i \in 1..Len(s) : s[i] = sep
    THEN LET k == CHOOSE i \in 1..Len(s) : s[i] = sep /\ \A j \in 1..(i-1) : s[j] # sep
         IN  <<SubSeq(s, 1, k - 1)>> \o Split(SubSeq(s, k + 1, Len(s)), sep)
    ELSE <<s>>

RECURSIVE DigitsVal(_)
DigitsVal(s) ==
    IF s = <<>> THEN 0
    ELSE 10 * DigitsVal(SubSeq(s, 1, Len(s) - 1)) + DigitVal(s[Len(s)])

AllDigits(s) == s # <<>> /\ \A i \in 1..Len(s) : IsDigit(s[i])

\* int(s) succeeds on an optionally signed, non-empty run of digits and
\* raises ValueError otherwise
IsInt(s) ==
    \/ AllDigits(s)
    \/ s # <<>> /\ s[1] \in {"-", "+"} /\ AllDigits(Tail(s))

IntOf(s) ==
    IF s[1] = "-" THEN -DigitsVal(Tail(s))
    ELSE IF s[1] = "+" THEN DigitsVal(Tail(s))
    ELSE DigitsVal(s)

\* f"{n}"
RECURSIVE NatStr(_)
NatStr(n) == IF n < 10 THEN <<Digits[n + 1]>>
             ELSE Append(NatStr(n \div 10), Digits[(n % 10) + 1])

IntStr(n) == IF n < 0 THEN <<"-">> \o NatStr(-n) ELSE NatStr(n)

\* f"{n:02d}"
Pad2(n) == IF Len(IntStr(n)) < 2 THEN <<"0">> \o IntStr(n) ELSE IntStr(n)

(***************************************************************************)
(* Time Codec.                                                             *)
(***************************************************************************)
\* int((secs - whole_secs) * 10) for secs = seconds % 60
Decisecond(secs) ==
    FTrunc(FMulInt(FSub(secs, FromInt(FTrunc(secs))), 10))

\* TimelineGenerator._format_time, SpectacularTimelineGenerator._format_time
FormatTime(seconds) ==
    LET hours      == FFloorDiv(seconds, 3600)
        minutes    == FFloorDiv(FMod(seconds, 3600), 60)
        secs       == FMod(seconds, 60)
        whole_secs == FTrunc(secs)
        millisecs  == Decisecond(secs)
    IN  IntStr(hours) \o <<":">> \o Pad2(minutes) \o <<":">> \o Pad2(whole_secs)
            \o <<".">> \o IntStr(millisecs)

FormatDuration(seconds) == FormatTime(seconds)

\* _time_to_seconds raises IndexError on fewer than three components and
\* ValueError on a component int() rejects
TimeParses(time_str) ==
    LET parts == Split(time_str, ":")
    IN  /\ Len(parts) >= 3
        /\ IsInt(parts[1])
        /\ IsInt(parts[2])
        /\ LET sec_parts == Split(parts[3], ".")
           IN  /\ IsInt(sec_parts[1])
               /\ Len(sec_parts) > 1 => IsInt(sec_parts[2])

\* TimelineGenerator._time_to_seconds, SpectacularTimelineGenerator._time_to_seconds
TimeToSeconds(time_str) ==
    LET parts     == Split(time_str, ":")
        hours     == IntOf(parts[1])
        minutes   == IntOf(parts[2])
        sec_parts == Split(parts[3], ".")
        seconds   == IntOf(sec_parts[1])
        decimal   == IF Len(sec_parts) > 1
                     THEN LET k == IntOf(sec_parts[2])
                          IN  IF k < 0 THEN FNeg(FromRatio(-k, 10)) ELSE FromRatio(k, 10)
                     ELSE FZero
    IN  FAdd(FromInt(hours * 3600 + minutes * 60 + seconds), decimal)


(***************************************************************************)
(* Event Model: DMXEvent and its start_time validator.                     *)
(***************************************************************************)
\* validate_start_time with the hours bound off by one (hours <= 24)
ValidStartTimeHours24(v) ==
    LET parts == Split(v, ":")
    IN  /\ Len(parts) = 3
        /\ IsInt(parts[1])
        /\ IsInt(parts[2])
        /\ LET sec_parts == Split(parts[3], ".")
           IN  /\ IsInt(sec_parts[1])
               /\ Len(sec_parts) = 2 => IsInt(sec_parts[2])
               /\ LET hours        == IntOf(parts[1])
                      minutes      == IntOf(parts[2])
                      seconds      == IntOf(sec_parts[1])
                      milliseconds == IF Len(sec_parts) = 2 THEN IntOf(sec_parts[2]) ELSE 0
                  IN  /\ 0 <= hours /\ hours <= 24
                      /\ 0 <= minutes /\ minutes <= 59
                      /\ 0 <= seconds /\ seconds <= 59
                      /\ 0 <= milliseconds /\ milliseconds <= 999

\* DMXEvent.validate_start_time: TRUE when the validator returns v, FALSE
\* when it raises ValueError (which pydantic reports as a ValidationError)
ValidStartTime(v) ==
    LET parts == Split(v, ":")
    IN  /\ Len(parts) = 3
        /\ IsInt(parts[1])
        /\ IsInt(parts[2])
        /\ LET sec_parts == Split(parts[3], ".")
           IN  /\ IsInt(sec_parts[1])
               /\ Len(sec_parts) = 2 => IsInt(sec_parts[2])
               /\ LET hours        == IntOf(parts[1])
                      minutes      == IntOf(parts[2])
                      seconds      == IntOf(sec_parts[1])
                      milliseconds == IF Len(sec_parts) = 2 THEN IntOf(sec_parts[2]) ELSE 0
                  IN  /\ 0 <= hours /\ hours <= 23
                      /\ 0 <= minutes /\ minutes <= 59
                      /\ 0 <= seconds /\ seconds <= 59
                      /\ 0 <= milliseconds /\ milliseconds <= 999

\* speed: int = Field(100, ge=1, le=100)
ValidSpeed(speed) == 1 <= speed /\ speed <= 100

\* SpeedType.BPM_BASED.value, SpeedType.PERCENTAGE.value
BPM_BASED == 1
PERCENTAGE == 2

\* an optional value is None or Some(value)
None == <<>>

Some(value) == <<value>>

\* DMXEvent(...): the constructor succeeds iff every field validates
DMXEventValid(start_time, speed) == ValidStartTime(start_time) /\ ValidSpeed(speed)

DMXEvent(timeline_index, start_time, path, length, speed, speed_type, fade_in, fade_out) ==
    [timeline_index |-> timeline_index, start_time |-> start_time, path |-> path,
     length |-> length, speed |-> speed, speed_type |-> speed_type,
     fade_in |-> fade_in, fade_out |-> fade_out, bpm |-> None, volume |-> None]


(***************************************************************************)
(* Timeline Aggregate: DMXTimeline.  A text is a sequence of strings       *)
(* (fragments and single characters); a path is the sequence of the        *)
(* fragments of the f-string that built it.                                *)
(***************************************************************************)
\* Python truthiness of an optional str and of an optional int
TruthyStr(o) == o # None /\ o[1] # <<>>

TruthyInt(o) == o # None /\ o[1] # 0

\* "\n".join(lines)
RECURSIVE JoinLines(_)
JoinLines(lines) ==
    IF lines = <<>> THEN <<>>
    ELSE IF Len(lines) = 1 THEN lines[1]
    ELSE lines[1] \o <<"\n">> \o JoinLines(Tail(lines))

RECURSIVE Flatten(_)
Flatten(ss) == IF ss = <<>> THEN <<>> ELSE Head(ss) \o Flatten(Tail(ss))

\* the lines to_tml_format appends for one event, numbered i
EventLines(i, event) ==
    <<  <<"[Event_">> \o IntStr(i) \o <<"]">>,
        <<"TimeLineIndex = ">> \o IntStr(event.timeline_index),
        <<"StartTime = ">> \o event.start_time,
        <<"Path = ">> \o event.path  >>
    \o (IF TruthyStr(event.length) THEN << <<"Length = ">> \o event.length[1] >> ELSE <<>>)
    \o (IF TruthyInt(event.fade_in) THEN << <<"FadeIn = ">> \o IntStr(event.fade_in[1]) >> ELSE <<>>)
    \o (IF TruthyInt(event.fade_out) THEN << <<"FadeOut = ">> \o IntStr(event.fade_out[1]) >> ELSE <<>>)
    \o (IF TruthyInt(event.bpm) THEN << <<"BPM = ">> \o IntStr(event.bpm[1]) >> ELSE <<>>)
    \o (IF event.volume # None THEN << <<"Volume = ">> \o IntStr(event.volume[1]) >> ELSE <<>>)
    \o <<  <<"Speed = ">> \o IntStr(event.speed),
           <<"SpeedType = ">> \o IntStr(event.speed_type)  >>

\* enumerate(self.events) without the start argument: numbering from 0
EnumerateFrom0(events) == [i \in 1..Len(events) |-> EventLines(i - 1, events[i])]

\* for i, event in enumerate(self.events, 1)
EnumerateFrom1(events) == [i \in 1..Len(events) |-> EventLines(i, events[i])]

\* DMXTimeline.to_tml_format
to_tml_format(self) ==
    LET header ==
            <<  <<"[Params]">>,
                <<"Version = ", self.version>>,
                <<"CommentTimeLine = 0">>,
                <<"LightTimeLines = ">> \o IntStr(self.light_timelines),
                <<"MediaTimeLines = ">> \o IntStr(self.media_timelines),
                <<"ShowWaveForm = ", IF self.show_waveform THEN "1" ELSE "0">>,
                <<"MaxTime = ", self.max_time>>,
                <<"Zoom = 0">>,
                <<"TimeLine_1 = V I D E O   P I C T U R E   T I M E L I N E">>,
                <<"TimeLine_2 = A U D I O   T I M E L I N E">>  >>
        labels ==
            [i \in 1..self.light_timelines |->
                <<"TimeLine_">> \o IntStr(i - 1 + 3)
                    \o <<" = L I G H T   S C E N E   T I M E L I N E   #   ">>
                    \o IntStr(i - 1 + 1)]
        audio ==
            IF TruthyStr(self.audio_file) /\ TruthyStr(self.audio_length)
            THEN <<  <<"[Event_", "0", "]">>,
                     <<"TimeLineIndex = 2">>,
                     <<"StartTime = 0:00:00.0">>,
                     <<"Path = ">> \o self.audio_file[1],
                     <<"Length = ">> \o self.audio_length[1]  >>
            ELSE <<>>
    IN  JoinLines(header \o labels \o audio \o Flatten(EnumerateFrom1(self.events)))

\* DMXTimeline(...): the fields default as in the class
DMXTimeline(light_timelines, show_waveform, audio_file, audio_length) ==
    [version |-> "0.2", max_time |-> "0:30:00", light_timelines |-> light_timelines,
     media_timelines |-> 1, show_waveform |-> show_waveform,
     audio_file |-> audio_file, audio_length |-> audio_length,
     events |-> <<>>, fixtures |-> <<>>]

\* DMXTimeline.add_event
add_event(self, event) == [self EXCEPT !.events = Append(self.events, event)]


(***************************************************************************)
(* Generators.  A piece of a generation run yields the events it returned, *)
(* the arguments of the DMXEvent(...) calls it made, and the exception     *)
(* that ended it, if any.  Where the code draws from `random`, or where a  *)
(* library leaves the result open, the operator is the set of the results  *)
(* the piece can yield.                                                    *)
(***************************************************************************)
Nothing == [events |-> <<>>, built |-> <<>>, raised |-> None]

Raise(exception) == [events |-> <<>>, built |-> <<>>, raised |-> Some(exception)]

\* events.extend(s) / events.append(s) after r: not reached when r raised
Then(r, s) ==
    IF r.raised # None THEN r
    ELSE [events |-> r.events \o s.events, built |-> r.built \o s.built,
          raised |-> s.raised]

ThenAny(R, S) == {Then(r, s) : r \in R, s \in S}

\* a constructor that yields no event, and no error, for arguments that
\* fail validation
NewEventOrSkip(timeline_index, start_time, path, length, speed, speed_type, fade_in, fade_out) ==
    LET call == <<[start_time |-> start_time, speed |-> speed]>>
    IN  IF DMXEventValid(start_time, speed)
        THEN [events |-> <<DMXEvent(timeline_index, start_time, path, length,
                                    speed, speed_type, fade_in, fade_out)>>,
              built |-> call, raised |-> None]
        ELSE [events |-> <<>>, built |-> call, raised |-> None]

\* DMXEvent(...) called by a generator: the event, or pydantic's
\* ValidationError
\* DMXEvent(...) put one track higher than asked
NewEventOneTrackUp(timeline_index, start_time, path, length, speed, speed_type, fade_in, fade_out) ==
    LET call == <<[start_time |-> start_time, speed |-> speed]>>
    IN  IF DMXEventValid(start_time, speed)
        THEN [events |-> <<DMXEvent(timeline_index + 1, start_time, path, length,
                                    speed, speed_type, fade_in, fade_out)>>,
              built |-> call, raised |-> None]
        ELSE [events |-> <<>>, built |-> call, raised |-> Some("ValidationError")]

NewEvent(timeline_index, start_time, path, length, speed, speed_type, fade_in, fade_out) ==
    LET call == <<[start_time |-> start_time, speed |-> speed]>>
    IN  IF DMXEventValid(start_time, speed)
        THEN [events |-> <<DMXEvent(timeline_index, start_time, path, length,
                                    speed, speed_type, fade_in, fade_out)>>,
              built |-> call, raised |-> None]
        ELSE [events |-> <<>>, built |-> call, raised |-> Some("ValidationError")]

\* sub in s
Contains(s, sub) ==
    \E k \in 1..(Len(s) - Len(sub) + 1) : SubSeq(s, k, k + Len(sub) - 1) = sub

\* events in the order they have
Unsorted(events) == events

\* events.sort(key=lambda e: self._time_to_seconds(e.start_time)): the sort
\* is stable, an event goes behind those whose key is not greater
SortByStartTime(events) ==
    LET key == [i \in 1..Len(events) |-> TimeToSeconds(events[i].start_time)]
        rank(i) == Cardinality({j \in 1..Len(events) :
                        \/ FLess(key[j], key[i])
                        \/ j < i /\ ~FLess(key[i], key[j])})
    IN  [r \in 1..Len(events) |-> events[CHOOSE i \in 1..Len(events) : rank(i) = r - 1]]

\* for event in events: timeline.add_event(event)
RECURSIVE AddAll(_, _)
AddAll(timeline, events) ==
    IF events = <<>> THEN timeline
    ELSE AddAll(add_event(timeline, Head(events)), Tail(events))

\* the rest of generate_timeline / generate_spectacular_timeline once the
\* events are there: nothing when they raised, else the timeline filled,
\* written to output_path if one is given, and returned
Finish(timeline, r, output_path) ==
    IF r.raised # None
    THEN [raised |-> r.raised, built |-> r.built, returned |-> None, file |-> None]
    ELSE LET filled == AddAll(timeline, r.events)
         IN  [raised |-> None, built |-> r.built, returned |-> Some(filled),
              file |-> IF output_path # None THEN Some(to_tml_format(filled)) ELSE None]


(***************************************************************************)
(* TimelineGenerator.  self is [fixtures, config]; analysis is an          *)
(* AudioAnalysis whose duration, bpm and spectral centroids are whole      *)
(* numbers.                                                                *)
(***************************************************************************)
\* GenerationConfig(): the defaults of the class
GenerationConfig ==
    [min_event_duration |-> FromRatio(1, 2), max_event_duration |-> FromInt(5),
     energy_threshold |-> FromRatio(1, 2), beat_sync |-> TRUE]

\* self.energy_colors
energy_colors ==
    [low    |-> <<"blue", "azure", "purple">>,
     medium |-> <<"green", "white - studená", "white - teplá">>,
     high   |-> <<"red", "orange", "yellow">>]

\* random.choice(seq): any of its elements
Choice(seq) == {seq[i] : i \in 1..Len(seq)}

\* TimelineGenerator._get_energy_at_time
GetEnergyAtTime(analysis, time) ==
    IF analysis.spectral_centroids = <<>> THEN analysis.features.energy
    ELSE LET num_centroids == Len(analysis.spectral_centroids)
             raw   == FTrunc(FMulInt(FDivInt(time, analysis.duration), num_centroids))
             low   == IF raw < num_centroids - 1 THEN raw ELSE num_centroids - 1
             index == IF low > 0 THEN low ELSE 0
             centroid == analysis.spectral_centroids[index + 1]
             max_centroid ==
                CHOOSE m \in Choice(analysis.spectral_centroids) :
                    \A c \in Choice(analysis.spectral_centroids) : c <= m
             ratio == FromRatio(centroid, max_centroid)
         IN  IF max_centroid > 0
             THEN (IF FLess(FromInt(1), ratio) THEN FromInt(1) ELSE ratio)
             ELSE FromRatio(1, 2)

\* TimelineGenerator._select_color_by_energy
SelectColorByEnergy(energy) ==
    IF FLess(FromRatio(7, 10), energy) THEN Choice(energy_colors.high)
    ELSE IF FLess(FromRatio(4, 10), energy) THEN Choice(energy_colors.medium)
    ELSE Choice(energy_colors.low)

\* the body of the loop of _generate_beat_events for the strong beat i
\* (i % 4 = 0, counted from 0); the fixture random.choice(moving_fixtures)
\* picks is not used
StrongBeatEvents(self, analysis, i) ==
    LET moving_fixtures ==
            SelectSeq(self.fixtures, LAMBDA f :
                Contains(f.model, <<"I", "n", "t", "i", "m", "i", "d", "a", "t", "o", "r">>))
        wall_spots ==
            SelectSeq(self.fixtures, LAMBDA f : Contains(f.name, <<"S", "p", "o", "t", "_">>))
        beat_interval == FromRatio(60, analysis.features.bpm)
        strong_beat_interval == FMulInt(beat_interval, 4)
        beat_time    == analysis.beats[i + 1]
        energy_level == GetEnergyAtTime(analysis, beat_time)
        start        == FormatTime(beat_time)
        moving_len   == FormatDuration(FMul(strong_beat_interval, FromRatio(8, 10)))
        spot_len     == FormatDuration(FMul(beat_interval, FromRatio(1, 2)))
        spot_num(spot) ==
            IF Contains(spot.name, <<"#">>)
            THEN Split(spot.name, "#")[Len(Split(spot.name, "#"))]
            ELSE <<"1">>
    IN  { Then(IF moving
               THEN NewEvent(3, start, <<"Moving_heads/MH_oven_", color, ".scex">>,
                             Some(moving_len), 100, PERCENTAGE, None, None)
               ELSE Nothing,
               IF flash
               THEN NewEvent(4, start,
                             <<"SPOTS_walls/SPOTS_single/SPOT_">> \o spot_num(wall_spots[spot])
                                 \o <<"/SPOT_">> \o spot_num(wall_spots[spot])
                                 \o <<"_", color, ".scex">>,
                             Some(spot_len), 100, PERCENTAGE, Some(1), Some(1))
               ELSE Nothing) :
            color  \in SelectColorByEnergy(energy_level),
            moving \in IF moving_fixtures # <<>> THEN BOOLEAN ELSE {FALSE},
            flash  \in IF wall_spots # <<>> THEN BOOLEAN ELSE {FALSE},
            spot   \in IF wall_spots # <<>> THEN 1..Len(wall_spots) ELSE {0} }

\* TimelineGenerator._generate_beat_events, from beat i on
RECURSIVE BeatEventsFrom(_, _, _)
BeatEventsFrom(self, analysis, i) ==
    IF i >= Len(analysis.beats) THEN {Nothing}
    ELSE ThenAny(IF i % 4 = 0 THEN StrongBeatEvents(self, analysis, i) ELSE {Nothing},
                 BeatEventsFrom(self, analysis, i + 1))

GenerateBeatEvents(self, analysis) == BeatEventsFrom(self, analysis, 0)

\* the body of the second loop of _generate_energy_events for
\* high_energy_times[i] (counted from 0)
EnergyEventsAt(self, analysis, high_energy_times, i) ==
    LET energy_time  == high_energy_times[i + 1]
        energy_level == GetEnergyAtTime(analysis, energy_time)
        start        == FormatTime(energy_time)
    IN  IF i > 0 /\ FLess(FSub(energy_time, high_energy_times[i]),
                          self.config.min_event_duration)
        THEN {Nothing}
        ELSE IF FLess(FromRatio(7, 10), energy_level)
        THEN { NewEvent(5, start, <<"LED_Walls/Walls_all/Walls_", color, ".scex">>,
                        Some(FormatDuration(self.config.max_event_duration)),
                        100, PERCENTAGE, Some(200), Some(300)) :
                color \in SelectColorByEnergy(energy_level) }
        ELSE IF FLess(FromRatio(5, 10), energy_level)
        THEN { NewEvent(6, start,
                        <<"LED_Walls/Walls_single/Walls_">> \o IntStr(wall_num)
                            \o <<"/Walls_">> \o IntStr(wall_num) \o <<"_", color, ".scex">>,
                        Some(FormatDuration(FMulInt(self.config.min_event_duration, 2))),
                        100, PERCENTAGE, None, None) :
                color \in SelectColorByEnergy(energy_level), wall_num \in 1..11 }
        ELSE {Nothing}

RECURSIVE EnergyEventsFrom(_, _, _, _)
EnergyEventsFrom(self, analysis, high_energy_times, i) ==
    IF i >= Len(high_energy_times) THEN {Nothing}
    ELSE ThenAny(EnergyEventsAt(self, analysis, high_energy_times, i),
                 EnergyEventsFrom(self, analysis, high_energy_times, i + 1))

\* _generate_energy_events without the energy_threshold filter
GenerateEnergyEventsUnfiltered(self, analysis) ==
    EnergyEventsFrom(self, analysis, analysis.onset_times, 0)

\* TimelineGenerator._generate_energy_events
GenerateEnergyEvents(self, analysis) ==
    LET high_energy_times ==
            SelectSeq(analysis.onset_times, LAMBDA onset_time :
                FLess(self.config.energy_threshold, GetEnergyAtTime(analysis, onset_time)))
    IN  EnergyEventsFrom(self, analysis, high_energy_times, 0)

\* TimelineGenerator._generate_ambient_events
GenerateAmbientEvents(analysis) ==
    LET base_color == IF FLess(analysis.features.valence, FromRatio(5, 10))
                      THEN "blue" ELSE "yellow"
        ambient_start    == FromInt(10)
        ambient_duration == FSub(FSub(FromInt(analysis.duration), ambient_start), FromInt(10))
        stove_color == IF FLess(FromRatio(5, 10), analysis.features.energy)
                       THEN "orange" ELSE "red"
    IN  Then(IF FLess(FZero, ambient_duration)
             THEN NewEvent(7, FormatTime(ambient_start),
                           <<"Bodovky/Bodovky_all/Bodovka_", base_color, ".scex">>,
                           Some(FormatDuration(ambient_duration)),
                           50, PERCENTAGE, Some(2000), Some(2000))
             ELSE Nothing,
             IF FLess(FromRatio(6, 10), analysis.features.valence)
             THEN NewEvent(8, FormatTime(FromInt(5)),
                           <<"LED_Oven/Oven_", stove_color, ".scex">>,
                           Some(FormatDuration(FSub(FromInt(analysis.duration), FromInt(10)))),
                           30, PERCENTAGE, Some(3000), Some(3000))
             ELSE Nothing)

\* TimelineGenerator._generate_events
GenerateEvents(self, analysis) ==
    LET beat == IF self.config.beat_sync /\ analysis.beats # <<>>
                THEN GenerateBeatEvents(self, analysis) ELSE {Nothing}
        all  == ThenAny(ThenAny(beat, GenerateEnergyEvents(self, analysis)),
                        {GenerateAmbientEvents(analysis)})
    IN  { IF r.raised # None THEN r ELSE [r EXCEPT !.events = SortByStartTime(r.events)] :
            r \in all }

\* TimelineGenerator.generate_timeline
GenerateTimeline(self, analysis, output_path) ==
    LET timeline ==
            [DMXTimeline(10, TRUE, Some(<<"Music/">> \o analysis.file_path_name),
                         Some(FormatDuration(FromInt(analysis.duration))))
                EXCEPT !.fixtures = self.fixtures]
    IN  { Finish(timeline, r, output_path) : r \in GenerateEvents(self, analysis) }

(***************************************************************************)
(* SpectacularTimelineGenerator.  analysis is the record                   *)
(* analyze_for_lighting returns; its duration, band energies, syncopation  *)
(* and chroma entries are whole numbers.                                   *)
(***************************************************************************)
\* self.emotion_colors
emotion_colors ==
    [energetic_happy |-> <<"red", "orange", "yellow">>,
     peaceful_happy  |-> <<"yellow", "white - teplá", "green">>,
     aggressive_sad  |-> <<"red", "purple", "blue">>,
     melancholic     |-> <<"blue", "azure", "white - studená">>]

\* SpectacularTimelineGenerator._select_emotion_color
SelectEmotionColor(emotion) ==
    IF emotion \in DOMAIN emotion_colors THEN emotion_colors[emotion][1]
    ELSE "white - studená"

\* np.linspace(0, stop, num): num samples, the last one stop itself
Linspace(stop, num) ==
    [k \in 1..num |->
        IF num = 1 THEN FZero
        ELSE IF k = num THEN FromInt(stop)
        ELSE FMulInt(FromRatio(stop, num - 1), k - 1)]

\* _create_intro_sequence, from fixture group i on
RECURSIVE IntroFrom(_, _, _, _)
IntroFrom(start_time, duration, emotion, i) ==
    LET fixtures == <<"Bodovky", "SPOTS_walls", "LED_walls", "LED_Oven">>
        colors   == emotion_colors[emotion]
        delay    == FMulInt(FDivInt(duration, Len(fixtures)), i)
        event_start   == FAdd(start_time, delay)
        fixture_group == fixtures[i + 1]
        color    == colors[(i % Len(colors)) + 1]
    IN  IF i >= Len(fixtures) THEN Nothing
        ELSE Then(NewEvent(3 + i, FormatTime(event_start),
                           <<fixture_group, "/", fixture_group, "_all/",
                             fixture_group, "_", color, ".scex">>,
                           Some(FormatDuration(FSub(duration, delay))),
                           30, PERCENTAGE, Some(2000), Some(1000)),
                  IntroFrom(start_time, duration, emotion, i + 1))

\* SpectacularTimelineGenerator._create_intro_sequence
CreateIntroSequence(start_time, duration, emotion) ==
    IF emotion \in DOMAIN emotion_colors
    THEN IntroFrom(start_time, duration, emotion, 0)
    ELSE Raise("KeyError")

\* SpectacularTimelineGenerator._create_chorus_explosion
CreateChorusExplosion(start_time, duration, energy, emotion) ==
    IF emotion \notin DOMAIN emotion_colors THEN Raise("KeyError")
    ELSE
    LET main_color == emotion_colors[emotion][1]
    IN  Then(NewEvent(3, FormatTime(start_time),
                      <<"Moving_heads/MH_oven_", main_color, ".scex">>,
                      Some(FormatDuration(duration)), 100, PERCENTAGE, Some(100), Some(300)),
        Then(NewEvent(4, FormatTime(FAdd(start_time, FromRatio(2, 10))),
                      <<"Special_efects/Walls_flashing_snake/Walls_flashing_snake_red.scex">>,
                      Some(FormatDuration(FSub(duration, FromRatio(2, 10)))),
                      2, BPM_BASED, None, None),
             NewEvent(12, FormatTime(FAdd(start_time, FromRatio(5, 10))),
                      <<"UV/UV.scex">>,
                      Some(FormatDuration(FSub(duration, FromRatio(5, 10)))),
                      100, PERCENTAGE, None, None)))

\* _generate_structural_effects, from section i on; _create_verse_lighting
\* and _create_outro_sequence are not defined in the class
RECURSIVE StructuralFrom(_, _)
StructuralFrom(analysis, i) ==
    LET sections == analysis.structure.sections
        emotion  == analysis.emotional_content.emotion_category
        section  == sections[i + 1]
    IN  IF i >= Len(sections) THEN Nothing
        ELSE Then(CASE section.type = "intro" ->
                        CreateIntroSequence(section.start_time, section.duration, emotion)
                    [] section.type = "verse" -> Raise("AttributeError")
                    [] section.type = "chorus" ->
                        CreateChorusExplosion(section.start_time, section.duration,
                                              section.energy, emotion)
                    [] section.type = "outro" -> Raise("AttributeError")
                    [] OTHER -> Nothing,
                  StructuralFrom(analysis, i + 1))

\* SpectacularTimelineGenerator._generate_structural_effects
GenerateStructuralEffects(analysis) == StructuralFrom(analysis, 0)

\* scipy's _local_maxima_1d: the midpoints of the plateaus of x that are
\* higher than both neighbours, the first and the last sample excluded.
\* Samples are numbered from 0, x[i + 1] is sample i.
LocalMaxima(x) ==
    { m \in 1..(Len(x) - 2) :
        \E l \in 1..m, r \in m..(Len(x) - 2) :
            /\ m = (l + r) \div 2
            /\ \A k \in l..r : x[k + 1] = x[l + 1]
            /\ FLess(x[l], x[l + 1])
            /\ FLess(x[r + 2], x[l + 1]) }

\* scipy's _select_by_peak_distance: the peaks are visited from the highest
\* down and a peak still kept removes the peaks closer than distance; the
\* order argsort gives equal heights is not fixed, every order is possible
RECURSIVE SelectByPeakDistance(_, _, _, _)
SelectByPeakDistance(todo, keep, x, distance) ==
    IF todo = {} THEN {keep}
    ELSE UNION {
            SelectByPeakDistance(todo \ {j},
                IF j \in keep
                THEN {k \in keep : k = j \/ k - j >= distance \/ j - k >= distance}
                ELSE keep,
                x, distance) :
            j \in {j \in todo : \A k \in todo : ~FLess(x[j + 1], x[k + 1])} }

\* the least of the samples a..b of x
MinSample(x, a, b) ==
    x[(CHOOSE i \in a..b : \A k \in a..b : ~FLess(x[k + 1], x[i + 1])) + 1]

\* scipy's _peak_prominences: the height of the peak above the higher of
\* the lowest samples on its two sides, each side reaching as far as the
\* samples stay at or below the peak
PeakProminence(x, peak) ==
    LET left  == CHOOSE a \in 0..peak :
                    /\ \A k \in a..peak : ~FLess(x[peak + 1], x[k + 1])
                    /\ a > 0 => FLess(x[peak + 1], x[a])
        right == CHOOSE b \in peak..(Len(x) - 1) :
                    /\ \A k \in peak..b : ~FLess(x[peak + 1], x[k + 1])
                    /\ b < Len(x) - 1 => FLess(x[peak + 1], x[b + 2])
        left_min  == MinSample(x, left, peak)
        right_min == MinSample(x, peak, right)
    IN  FSub(x[peak + 1], IF FLess(left_min, right_min) THEN right_min ELSE left_min)

\* SpectacularTimelineGenerator._find_energy_peaks on a non-empty curve:
\* find_peaks(normalized, prominence=prominence, distance=10)
FindEnergyPeaks(energy_curve, prominence) ==
    LET top == CHOOSE m \in Choice(energy_curve) : \A c \in Choice(energy_curve) : c <= m
        normalized == [i \in 1..Len(energy_curve) |->
                          IF top > 0 THEN FromRatio(energy_curve[i], top)
                          ELSE FromInt(energy_curve[i])]
        maxima == LocalMaxima(normalized)
    IN  { {p \in kept : FLeq(prominence, PeakProminence(normalized, p))} :
            kept \in SelectByPeakDistance(maxima, maxima, normalized, 10) }

\* the bands of FrequencyBands that self.frequency_to_fixtures maps
frequency_to_fixtures ==
    <<"sub_bass", "bass", "low_mid", "mid", "high_mid", "presence", "brilliance">>

\* _generate_frequency_band_effects, from band b on: the first peak inside
\* the time axis calls _create_frequency_effect, which is not defined in
\* the class; np.max of an empty curve raises ValueError
RECURSIVE FrequencyBandFrom(_, _)
FrequencyBandFrom(analysis, b) ==
    LET bands == analysis.frequency_bands
        num_times == Len(bands.sub_bass)
        energy_curve == bands[frequency_to_fixtures[b]]
    IN  IF b > Len(frequency_to_fixtures) THEN {Nothing}
        ELSE IF energy_curve = <<>> THEN {Raise("ValueError")}
        ELSE ThenAny({ IF \E peak_idx \in peaks : peak_idx < num_times
                       THEN Raise("AttributeError") ELSE Nothing :
                         peaks \in FindEnergyPeaks(energy_curve, FromRatio(3, 10)) },
                     FrequencyBandFrom(analysis, b + 1))

\* SpectacularTimelineGenerator._generate_frequency_band_effects
GenerateFrequencyBandEffects(analysis) == FrequencyBandFrom(analysis, 1)

\* the body of the first loop of _generate_rhythm_effects for downbeat i
DownbeatEvents(rhythm, i) ==
    LET beat_time == rhythm.downbeats[i + 1]
        last == Len(rhythm.beat_strength) - 1
        strength == IF i < Len(rhythm.beat_strength)
                    THEN rhythm.beat_strength[(IF i * 4 < last THEN i * 4 ELSE last) + 1]
                    ELSE FromRatio(5, 10)
    IN  IF FLess(FromRatio(7, 10), strength)
        THEN Then(NewEvent(3, FormatTime(beat_time),
                           <<"Moving_heads/MH_oven_red.scex">>,
                           Some(<<"0", ":", "0", "0", ":", "0", "0", ".", "5">>),
                           100, PERCENTAGE, Some(1), Some(200)),
                  NewEvent(4, FormatTime(FAdd(beat_time, FromRatio(1, 10))),
                           <<"SPOTS_walls/SPOTS_all/SPOTS_orange.scex">>,
                           Some(<<"0", ":", "0", "0", ":", "0", "0", ".", "3">>),
                           100, PERCENTAGE, Some(1), Some(1)))
        ELSE Nothing

RECURSIVE DownbeatsFrom(_, _)
DownbeatsFrom(rhythm, i) ==
    IF i >= Len(rhythm.downbeats) THEN Nothing
    ELSE Then(DownbeatEvents(rhythm, i), DownbeatsFrom(rhythm, i + 1))

RECURSIVE SumSeq(_)
SumSeq(s) == IF s = <<>> THEN 0 ELSE Head(s) + SumSeq(Tail(s))

\* SpectacularTimelineGenerator._generate_rhythm_effects;
\* _create_syncopation_effects is not defined in the class
GenerateRhythmEffects(analysis) ==
    LET rhythm == analysis.rhythm
    IN  Then(DownbeatsFrom(rhythm, 0),
             IF /\ Len(rhythm.syncopation) > 0
                /\ FLess(FromRatio(5, 10),
                         FromRatio(SumSeq(rhythm.syncopation), Len(rhythm.syncopation)))
             THEN Raise("AttributeError") ELSE Nothing)

\* the body of the first loop of _generate_dynamic_effects
TransientEvents(transient_time) ==
    Then(NewEvent(5, FormatTime(transient_time),
                  <<"LED_walls/Walls_all/Walls_white - studená.scex">>,
                  Some(<<"0", ":", "0", "0", ":", "0", "0", ".", "1">>),
                  100, PERCENTAGE, Some(1), Some(1)),
         NewEvent(12, FormatTime(FAdd(transient_time, FromRatio(5, 100))),
                  <<"UV/UV.scex">>,
                  Some(<<"0", ":", "0", "0", ":", "0", "0", ".", "2">>),
                  100, PERCENTAGE, None, None))

RECURSIVE TransientsFrom(_, _)
TransientsFrom(transients, i) ==
    IF i >= Len(transients) THEN Nothing
    ELSE Then(TransientEvents(transients[i + 1]), TransientsFrom(transients, i + 1))

\* the second loop of _generate_dynamic_effects, from sample i on
RECURSIVE SustainFrom(_, _, _, _)
SustainFrom(analysis, i, in_sustain, sustain_start) ==
    LET mask  == analysis.dynamics.sustain_regions
        times == Linspace(analysis.duration, Len(mask))
        sustain_duration == FSub(times[i + 1], sustain_start)
        color == SelectEmotionColor(analysis.emotional_content.emotion_category)
    IN  IF i >= Len(mask) THEN Nothing
        ELSE IF mask[i + 1] /\ ~in_sustain
        THEN SustainFrom(analysis, i + 1, TRUE, times[i + 1])
        ELSE IF ~mask[i + 1] /\ in_sustain
        THEN Then(IF FLess(FromInt(2), sustain_duration)
                  THEN NewEvent(6, FormatTime(sustain_start),
                                <<"Bodovky/Bodovky_all/Bodovka_", color, ".scex">>,
                                Some(FormatDuration(sustain_duration)),
                                30, PERCENTAGE, Some(1000), Some(1000))
                  ELSE Nothing,
                  SustainFrom(analysis, i + 1, FALSE, sustain_start))
        ELSE SustainFrom(analysis, i + 1, in_sustain, sustain_start)

\* SpectacularTimelineGenerator._generate_dynamic_effects
GenerateDynamicEffects(analysis) ==
    Then(TransientsFrom(analysis.dynamics.transients, 0),
         SustainFrom(analysis, 0, FALSE, FZero))

\* np.sum(np.abs(np.diff(chroma, axis=1)), axis=0): chroma[p][t] is the
\* energy of pitch class p in frame t
HarmonicChange(chroma) ==
    LET Abs(v) == IF v < 0 THEN -v ELSE v
    IN  [t \in 1..(Len(chroma[1]) - 1) |->
            SumSeq([p \in 1..Len(chroma) |-> Abs(chroma[p][t + 1] - chroma[p][t])])]

\* value >= np.percentile(a, q): a threshold that a value equal to the
\* percentile passes
AtOrAbovePercentile(value, a, q) ==
    LET n  == Len(a)
        nth(k) == CHOOSE v \in Choice(a) :
                    /\ Cardinality({i \in 1..n : a[i] < v}) <= k
                    /\ Cardinality({i \in 1..n : a[i] <= v}) > k
        lo == (q * (n - 1)) \div 100
        hi == IF lo + 1 < n THEN lo + 1 ELSE n - 1
    IN  100 * value >= 100 * nth(lo) + ((q * (n - 1)) % 100) * (nth(hi) - nth(lo))

\* value > np.percentile(a, q) for whole numbers a and fewer than 21 of
\* them: the percentile lies between the sorted samples lo and lo + 1 at
\* the fraction (q * (n - 1) % 100) / 100, which is a whole number only
\* when the two samples are equal, so the comparison is that of the exact
\* values
AbovePercentile(value, a, q) ==
    LET n  == Len(a)
        nth(k) == CHOOSE v \in Choice(a) :
                    /\ Cardinality({i \in 1..n : a[i] < v}) <= k
                    /\ Cardinality({i \in 1..n : a[i] <= v}) > k
        lo == (q * (n - 1)) \div 100
        hi == IF lo + 1 < n THEN lo + 1 ELSE n - 1
    IN  100 * value > 100 * nth(lo) + ((q * (n - 1)) % 100) * (nth(hi) - nth(lo))

\* the loop of _generate_harmonic_effects, from change i on
RECURSIVE HarmonicFrom(_, _, _)
HarmonicFrom(analysis, harmonic_change, i) ==
    LET times == Linspace(analysis.duration, Len(harmonic_change))
        new_color == SelectEmotionColor(analysis.emotional_content.emotion_category)
    IN  IF i >= Len(harmonic_change) THEN Nothing
        ELSE Then(IF /\ AbovePercentile(harmonic_change[i + 1], harmonic_change, 85)
                     /\ AbovePercentile(harmonic_change[i + 1], harmonic_change, 95)
                  THEN NewEvent(7, FormatTime(times[i + 1]),
                                <<"LED_walls/Walls_all/Walls_", new_color, ".scex">>,
                                Some(<<"0", ":", "0", "0", ":", "0", "3", ".", "0">>),
                                50, PERCENTAGE, Some(500), Some(500))
                  ELSE Nothing,
                  HarmonicFrom(analysis, harmonic_change, i + 1))

\* SpectacularTimelineGenerator._generate_harmonic_effects
GenerateHarmonicEffects(analysis) ==
    LET chroma == analysis.harmonic.chroma
    IN  IF Len(chroma[1]) > 1
        THEN HarmonicFrom(analysis, HarmonicChange(chroma), 0)
        ELSE Nothing

\* SpectacularTimelineGenerator._generate_emotional_ambient
GenerateEmotionalAmbient(analysis) ==
    LET emotion  == analysis.emotional_content
        duration == FromInt(analysis.duration)
        ambient_color == SelectEmotionColor(emotion.emotion_category)
    IN  Then(IF FLess(FromRatio(5, 10), emotion.valence)
             THEN NewEvent(8, <<"0", ":", "0", "0", ":", "0", "5", ".", "0">>,
                           <<"LED_Oven/Oven_", ambient_color, ".scex">>,
                           Some(FormatDuration(FSub(duration, FromInt(10)))),
                           20, PERCENTAGE, Some(3000), Some(3000))
             ELSE Nothing,
             NewEvent(9, <<"0", ":", "0", "0", ":", "0", "3", ".", "0">>,
                      <<"LED_lavice/LED_lavice_", ambient_color, ".scex">>,
                      Some(FormatDuration(FSub(duration, FromInt(6)))),
                      25, PERCENTAGE, Some(2000), Some(2000)))

\* SpectacularTimelineGenerator.generate_spectacular_timeline, analysis
\* being what analyze_for_lighting(audio_path) returned
GenerateSpectacularTimeline(audio_path_name, analysis, output_path) ==
    LET timeline == DMXTimeline(10, TRUE, Some(<<"Music/">> \o audio_path_name),
                                Some(FormatDuration(FromInt(analysis.duration))))
        all == ThenAny({GenerateStructuralEffects(analysis)},
               ThenAny(GenerateFrequencyBandEffects(analysis),
                       {Then(GenerateRhythmEffects(analysis),
                        Then(GenerateDynamicEffects(analysis),
                        Then(GenerateHarmonicEffects(analysis),
                             GenerateEmotionalAmbient(analysis))))}))
    IN  { Finish(timeline,
                 IF r.raised # None THEN r
                 ELSE [r EXCEPT !.events = SortByStartTime(r.events)],
                 output_path) : r \in all }

(***************************************************************************)
(* AdvancedMusicAnalyzer._classify_sections.  The track is given as the    *)
(* segments between consecutive boundary times, each segment as the RMS    *)
(* energies of its frames; the frames of the whole track are those of its  *)
(* segments.  The energies are whole numbers, so the means below are       *)
(* compared exactly.                                                       *)
(***************************************************************************)
\* the frames of the whole track y
RECURSIVE TrackFrames(_)
TrackFrames(segments) ==
    IF segments = <<>> THEN <<>> ELSE Head(segments) \o TrackFrames(Tail(segments))

\* the label of segment i (counted from 0) of the track: rms_energy, the
\* mean of the segment's frames, is compared with np.percentile of the
\* list that holds one number, the mean of the track's frames
SectionType(segments, i) ==
    IF i = 0 THEN "intro"
    ELSE IF i = Len(segments) - 1 THEN "outro"
    ELSE IF AbovePercentile(
                SumSeq(segments[i + 1]) * Len(TrackFrames(segments)),
                <<SumSeq(TrackFrames(segments)) * Len(segments[i + 1])>>, 75)
    THEN "chorus"
    ELSE "verse"

\* the loop of _classify_sections from segment i on: an empty segment
\* yields no section
RECURSIVE ClassifyFrom(_, _)
ClassifyFrom(segments, i) ==
    IF i >= Len(segments) THEN <<>>
    ELSE (IF segments[i + 1] = <<>> THEN <<>>
          ELSE << [start_time |-> i, end_time |-> i + 1, duration |-> 1,
                   type |-> SectionType(segments, i),
                   energy |-> [sum |-> SumSeq(segments[i + 1]),
                               frames |-> Len(segments[i + 1])]] >>)
         \o ClassifyFrom(segments, i + 1)

\* AdvancedMusicAnalyzer._classify_sections
ClassifySections(segments) == ClassifyFrom(segments, 0)


(***************************************************************************)
(* Visualizer: SaunaRenderer resolves the path of an event to fixtures.    *)
(***************************************************************************)
\* the characters of the fragments the generators build their paths of
Spelling ==
    <<  <<"Moving_heads/MH_oven_", <<"M", "o", "v", "i", "n", "g", "_", "h", "e", "a", "d", "s", "/", "M", "H", "_", "o", "v", "e", "n", "_">>>>,
        <<".scex", <<".", "s", "c", "e", "x">>>>,
        <<"SPOTS_walls/SPOTS_single/SPOT_", <<"S", "P", "O", "T", "S", "_", "w", "a", "l", "l", "s", "/", "S", "P", "O", "T", "S", "_", "s", "i", "n", "g", "l", "e", "/", "S", "P", "O", "T", "_">>>>,
        <<"/SPOT_", <<"/", "S", "P", "O", "T", "_">>>>,
        <<"LED_Walls/Walls_all/Walls_", <<"L", "E", "D", "_", "W", "a", "l", "l", "s", "/", "W", "a", "l", "l", "s", "_", "a", "l", "l", "/", "W", "a", "l", "l", "s", "_">>>>,
        <<"LED_Walls/Walls_single/Walls_", <<"L", "E", "D", "_", "W", "a", "l", "l", "s", "/", "W", "a", "l", "l", "s", "_", "s", "i", "n", "g", "l", "e", "/", "W", "a", "l", "l", "s", "_">>>>,
        <<"/Walls_", <<"/", "W", "a", "l", "l", "s", "_">>>>,
        <<"Bodovky/Bodovky_all/Bodovka_", <<"B", "o", "d", "o", "v", "k", "y", "/", "B", "o", "d", "o", "v", "k", "y", "_", "a", "l", "l", "/", "B", "o", "d", "o", "v", "k", "a", "_">>>>,
        <<"LED_Oven/Oven_", <<"L", "E", "D", "_", "O", "v", "e", "n", "/", "O", "v", "e", "n", "_">>>>,
        <<"Special_efects/Walls_flashing_snake/Walls_flashing_snake_red.scex", <<"S", "p", "e", "c", "i", "a", "l", "_", "e", "f", "e", "c", "t", "s", "/", "W", "a", "l", "l", "s", "_", "f", "l", "a", "s", "h", "i", "n", "g", "_", "s", "n", "a", "k", "e", "/", "W", "a", "l", "l", "s", "_", "f", "l", "a", "s", "h", "i", "n", "g", "_", "s", "n", "a", "k", "e", "_", "r", "e", "d", ".", "s", "c", "e", "x">>>>,
        <<"UV/UV.scex", <<"U", "V", "/", "U", "V", ".", "s", "c", "e", "x">>>>,
        <<"Moving_heads/MH_oven_red.scex", <<"M", "o", "v", "i", "n", "g", "_", "h", "e", "a", "d", "s", "/", "M", "H", "_", "o", "v", "e", "n", "_", "r", "e", "d", ".", "s", "c", "e", "x">>>>,
        <<"SPOTS_walls/SPOTS_all/SPOTS_orange.scex", <<"S", "P", "O", "T", "S", "_", "w", "a", "l", "l", "s", "/", "S", "P", "O", "T", "S", "_", "a", "l", "l", "/", "S", "P", "O", "T", "S", "_", "o", "r", "a", "n", "g", "e", ".", "s", "c", "e", "x">>>>,
        <<"LED_walls/Walls_all/Walls_white - studená.scex", <<"L", "E", "D", "_", "w", "a", "l", "l", "s", "/", "W", "a", "l", "l", "s", "_", "a", "l", "l", "/", "W", "a", "l", "l", "s", "_", "w", "h", "i", "t", "e", " ", "-", " ", "s", "t", "u", "d", "e", "n", "á", ".", "s", "c", "e", "x">>>>,
        <<"LED_walls/Walls_all/Walls_", <<"L", "E", "D", "_", "w", "a", "l", "l", "s", "/", "W", "a", "l", "l", "s", "_", "a", "l", "l", "/", "W", "a", "l", "l", "s", "_">>>>,
        <<"LED_lavice/LED_lavice_", <<"L", "E", "D", "_", "l", "a", "v", "i", "c", "e", "/", "L", "E", "D", "_", "l", "a", "v", "i", "c", "e", "_">>>>,
        <<"Bodovky", <<"B", "o", "d", "o", "v", "k", "y">>>>,
        <<"SPOTS_walls", <<"S", "P", "O", "T", "S", "_", "w", "a", "l", "l", "s">>>>,
        <<"LED_walls", <<"L", "E", "D", "_", "w", "a", "l", "l", "s">>>>,
        <<"LED_Oven", <<"L", "E", "D", "_", "O", "v", "e", "n">>>>,
        <<"_all/", <<"_", "a", "l", "l", "/">>>>,
        <<"red", <<"r", "e", "d">>>>,
        <<"orange", <<"o", "r", "a", "n", "g", "e">>>>,
        <<"yellow", <<"y", "e", "l", "l", "o", "w">>>>,
        <<"blue", <<"b", "l", "u", "e">>>>,
        <<"azure", <<"a", "z", "u", "r", "e">>>>,
        <<"purple", <<"p", "u", "r", "p", "l", "e">>>>,
        <<"green", <<"g", "r", "e", "e", "n">>>>,
        <<"white - studená", <<"w", "h", "i", "t", "e", " ", "-", " ", "s", "t", "u", "d", "e", "n", "á">>>>,
        <<"white - teplá", <<"w", "h", "i", "t", "e", " ", "-", " ", "t", "e", "p", "l", "á">>>>,
        <<"OFF", <<"O", "F", "F">>>> >>

\* the str a path stands for, character by character
Chars(path) ==
    Flatten([i \in 1..Len(path) |->
        IF \E k \in 1..Len(Spelling) : Spelling[k][1] = path[i]
        THEN Spelling[CHOOSE k \in 1..Len(Spelling) : Spelling[k][1] = path[i]][2]
        ELSE <<path[i]>>])

\* str.lower()
Lower(s) ==
    LET upper == <<"A", "B", "C", "D", "E", "F", "G", "H", "I", "J", "K", "L", "M", "N", "O", "P", "Q", "R", "S", "T", "U", "V", "W", "X", "Y", "Z">>
        lower == <<"a", "b", "c", "d", "e", "f", "g", "h", "i", "j", "k", "l", "m", "n", "o", "p", "q", "r", "s", "t", "u", "v", "w", "x", "y", "z">>
    IN  [i \in 1..Len(s) |->
            IF \E k \in 1..26 : upper[k] = s[i]
            THEN lower[CHOOSE k \in 1..26 : upper[k] = s[i]]
            ELSE s[i]]

\* the group of SaunaRenderer._parse_scene_path(path), path a str
ParseScenePath(path) ==
    LET parts == Split(path, "/")
    IN  IF path = <<"O", "F", "F">> THEN <<"a", "l", "l">>
        ELSE IF Len(parts) < 2 THEN <<"u", "n", "k", "n", "o", "w", "n">>
        ELSE IF Len(parts) < 3 THEN Lower(parts[1])
        ELSE IF Contains(Lower(parts[2]), <<"s", "i", "n", "g", "l", "e">>)
        THEN IF Len(parts) >= 4 THEN Lower(parts[3]) ELSE Lower(parts[2])
        ELSE IF Contains(Lower(parts[2]), <<"a", "l", "l">>)
        THEN Lower(parts[1])
        ELSE Lower(parts[2])

\* the keys of self.fixtures after _create_sauna_fixtures, as <<prefix, number>>
SaunaFixtures ==
    ({"bodovka_"} \X (1..12)) \cup ({"wall_spot_"} \X (1..8))
        \cup ({"led_lavice_"} \X (1..11)) \cup ({"led_kamna_"} \X (1..2))
        \cup ({"moving_head_"} \X (1..5)) \cup ({"uv_"} \X (1..2))

\* SaunaRenderer._get_fixtures_for_group(group): the keys it returns
GetFixturesForGroup(group) ==
    LET group_lower == Lower(group)
        Keys(prefix) == {k \in SaunaFixtures : k[1] = prefix}
        pieces == Split(group_lower, "_")
        last   == pieces[Len(pieces)]
        \* the fixture numbered by the group's last piece, or all of the kind
        One(prefix, number, valid) ==
            IF IsInt(last) /\ valid /\ <<prefix, number>> \in SaunaFixtures
            THEN {<<prefix, number>>} ELSE Keys(prefix)
        num == IF IsInt(last) THEN IntOf(last) ELSE 0
    IN  IF group_lower \in {<<"b", "o", "d", "o", "v", "k", "y">>, <<"b", "o", "d", "o", "v", "k", "a">>, <<"c", "e", "i", "l", "i", "n", "g">>}
        THEN Keys("bodovka_")
        ELSE IF group_lower \in {<<"l", "e", "d", "_", "w", "a", "l", "l", "s">>, <<"w", "a", "l", "l", "s">>, <<"l", "e", "d", "_", "w", "a", "l", "l">>}
        THEN Keys("wall_spot_")
        ELSE IF group_lower \in {<<"l", "e", "d", "_", "l", "a", "v", "i", "c", "e">>, <<"l", "a", "v", "i", "c", "e">>, <<"b", "e", "n", "c", "h">>}
        THEN Keys("led_lavice_")
        ELSE IF group_lower \in {<<"l", "e", "d", "_", "k", "a", "m", "n", "a">>, <<"l", "e", "d", "_", "o", "v", "e", "n">>, <<"o", "v", "e", "n">>, <<"k", "a", "m", "n", "a">>}
        THEN Keys("led_kamna_")
        ELSE IF group_lower \in {<<"m", "o", "v", "i", "n", "g", "_", "h", "e", "a", "d", "s">>, <<"m", "o", "v", "i", "n", "g">>}
        THEN Keys("moving_head_")
        ELSE IF group_lower \in {<<"u", "v">>, <<"u", "v", "_", "l", "i", "g", "h", "t", "s">>}
        THEN Keys("uv_")
        ELSE IF group_lower = <<"a", "l", "l">> THEN SaunaFixtures
        ELSE IF Contains(group_lower, <<"w", "a", "l", "l", "s", "_">>)
        THEN One("wall_spot_", ((num - 1) % 8) + 1, TRUE)
        ELSE IF Contains(group_lower, <<"b", "o", "d", "o", "v", "k", "a", "_">>)
        THEN One("bodovka_", num, 1 <= num /\ num <= 12)
        ELSE IF Contains(group_lower, <<"m", "h", "_">>)
        THEN One("moving_head_", num, 1 <= num /\ num <= 5)
        ELSE IF Contains(group_lower, <<"l", "a", "v", "i", "c", "e", "_">>)
        THEN One("led_lavice_", num, 1 <= num /\ num <= 11)
        ELSE {}

\* section.get('Path') of the event as TimelinePlayer._parse_tml_file reads
\* it back from the text to_tml_format wrote: what follows "Path = "
LoadedPath(event) ==
    LET line == CHOOSE l \in Choice(EventLines(1, event)) : l[1] = "Path = "
    IN  Chars(Tail(line))

(***************************************************************************)
(* State.                                                                  *)
(***************************************************************************)
VARIABLES
    \* Time Codec: the float handed to _format_time, the string it returned,
    \* what _time_to_seconds made of that string, and that formatted again
    seconds, time_str, parsed, reformatted, codec_pc,
    \* Event Model: the start_time and speed handed to DMXEvent(...), the
    \* fields start_time was written from, and how the constructor ended
    start_fields, start_time, speed, event_result,
    \* Timeline Aggregate: the DMXTimeline objects, the events handed to
    \* add_event of each in call order, and a record of the last
    \* to_tml_format call on each
    timelines, added, tml,
    \* Generators: the generator called with its arguments, and what each
    \* of the calls made with these arguments did
    job, runs,
    \* Logging: the module's _configured_loggers, the loggers of the logging
    \* manager by name, the last get_logger call with the logger it
    \* returned, and the number of calls made
    configured_loggers, loggers, returned, logger_calls,
    \* Timeline Player: the fields of the TimelinePlayer (self), time.time(),
    \* the main and the update thread with their locals, and what the
    \* on_light_change callback was handed
    player, clock, threads, delivered

codecVars == <<seconds, time_str, parsed, reformatted, codec_pc>>

eventVars == <<start_fields, start_time, speed, event_result>>

timelineVars == <<timelines, added, tml>>

genVars == <<job, runs>>

loggingVars == <<configured_loggers, loggers, returned, logger_calls>>

playerVars == <<player, clock, threads, delivered>>

\* the variables of the logging module and of the player together
serviceVars == <<loggingVars, playerVars>>

vars == <<codecVars, eventVars, timelineVars, genVars, serviceVars>>

CodecIdle ==
    /\ seconds = FZero /\ time_str = <<>> /\ parsed = FZero
    /\ reformatted = <<>> /\ codec_pc = "idle"

EventIdle ==
    /\ start_fields = <<>> /\ start_time = <<>> /\ speed = 100
    /\ event_result = "idle"

TimelineIdle ==
    /\ timelines = <<>> /\ added = <<>> /\ tml = <<>>

LoggingIdle ==
    /\ configured_loggers = {} /\ loggers = <<>> /\ returned = <<>> /\ logger_calls = 0

PlayerIdle ==
    /\ player = <<>> /\ clock = 0 /\ threads = <<>> /\ delivered = <<>>

ServiceIdle == LoggingIdle /\ PlayerIdle

GenIdle == job = <<>> /\ runs = <<>> /\ ServiceIdle

(***************************************************************************)
(* SpecCodec: _format_time and _time_to_seconds applied to times of        *)
(* [0, 24 h) given to the hundredth of a second.                           *)
(***************************************************************************)
\* inputs are multiples of 1/TickRate s: every tick of the first MaxTicks,
\* and every tick of the seconds that start at SampleSeconds
TickRate == 100
MaxTicks == 300
SampleSeconds == {59, 3599, 8192, 35999, 86399}

TimeInputs ==
    {FromRatio(n, TickRate) : n \in 0..MaxTicks}
        \cup {FromRatio(sec * TickRate + c, TickRate) :
                 sec \in SampleSeconds, c \in 0..(TickRate - 1)}

CodecInit ==
    /\ seconds \in TimeInputs
    /\ time_str = <<>> /\ parsed = FZero /\ reformatted = <<>>
    /\ codec_pc = "input"
    /\ EventIdle /\ TimelineIdle /\ GenIdle

CodecFormat ==
    /\ codec_pc = "input"
    /\ time_str' = FormatTime(seconds)
    /\ codec_pc' = "formatted"
    /\ UNCHANGED <<seconds, parsed, reformatted, eventVars, timelineVars, genVars, serviceVars>>

CodecParse ==
    /\ codec_pc = "formatted"
    /\ TimeParses(time_str)
    /\ parsed' = TimeToSeconds(time_str)
    /\ codec_pc' = "parsed"
    /\ UNCHANGED <<seconds, time_str, reformatted, eventVars, timelineVars, genVars, serviceVars>>

CodecReformat ==
    /\ codec_pc = "parsed"
    /\ reformatted' = FormatTime(parsed)
    /\ codec_pc' = "reformatted"
    /\ UNCHANGED <<seconds, time_str, parsed, eventVars, timelineVars, genVars, serviceVars>>

CodecNext == CodecFormat \/ CodecParse \/ CodecReformat

SpecCodec == CodecInit /\ [][CodecNext]_vars


\* t <= 86399.9
InCodecRange(t) == ~t.neg /\ FLeq(t, FromRatio(863999, 10))

\* |a - b| <= 1/10 for a, b >= 0, in exact arithmetic: 10 * |a - b| <= 1
WithinTenth(a, b) ==
    LET x == ToBig(a)
        y == ToBig(b)
        d == IF BLess(x, y) THEN BSub(y, x) ELSE BSub(x, y)
    IN  ~BLess(BPow2(FracLimbs * LimbBits), BTrim(BMulSmall(d, 10)))

\* C2: for every time t in [0, 86399.9], _time_to_seconds(_format_time(t))
\* is within 0.1 of t.
C2_RoundTripWithinTenth ==
    (codec_pc \in {"parsed", "reformatted"} /\ InCodecRange(seconds))
        => WithinTenth(parsed, seconds)

\* C9: every string s that _format_time produces for a time in [0, 86399.9]
\* is reproduced exactly: _format_time(_time_to_seconds(s)) = s.
C9_FormatInvertible ==
    (codec_pc = "reformatted" /\ InCodecRange(seconds))
        => reformatted = time_str


(***************************************************************************)
(* SpecEvent: DMXEvent(...) on start_time strings written from one to      *)
(* MaxComponents colon-delimited fields.                                   *)
(***************************************************************************)
MaxComponents == 4

HourFields == { <<"0">>, <<"2", "3">>, <<"2", "4">>, <<"-", "1">>, <<"x">> }

MinuteFields == { <<"0", "0">>, <<"5", "9">>, <<"6", "0">> }

SecondFields == { <<"0", "5">>, <<"5", "9">>, <<"6", "0">> }

\* what follows the seconds: nothing, or "." and a fractional field
FractionFields ==
    { None, Some(<<>>), Some(<<"0">>), Some(<<"9">>), Some(<<"1", "0">>),
      Some(<<"9", "9", "9">>), Some(<<"1", "0", "0", "0">>) }

SpeedInputs == {0, 1, 100, 101}

\* the fields of a start_time of n components; components after the third
\* are "00"
StartFields ==
    [n : 1..MaxComponents, hours : HourFields, minutes : MinuteFields,
     seconds : SecondFields, fraction : FractionFields]

\* n fields joined by ":", the fraction after the seconds
StartTimeOf(f) ==
    LET secs == f.seconds \o (IF f.fraction = None THEN <<>> ELSE <<".">> \o f.fraction[1])
        all  == [i \in 1..f.n |->
                    IF i = 1 THEN f.hours
                    ELSE IF i = 2 THEN f.minutes
                    ELSE IF i = 3 THEN secs
                    ELSE <<"0", "0">>]
        RECURSIVE Join(_)
        Join(parts) == IF Len(parts) = 1 THEN parts[1]
                       ELSE parts[1] \o <<":">> \o Join(Tail(parts))
    IN  Join(all)

EventInit ==
    /\ start_fields \in {f \in StartFields :
                            /\ f.n < 2 => f.minutes = <<"0", "0">>
                            /\ f.n < 3 => (f.seconds = <<"0", "5">> /\ f.fraction = None)}
    /\ start_time = StartTimeOf(start_fields)
    /\ speed \in SpeedInputs
    /\ event_result = "new"
    /\ CodecIdle /\ TimelineIdle /\ GenIdle

\* DMXEvent(timeline_index=..., start_time=start_time, speed=speed, ...)
ConstructEvent ==
    /\ event_result = "new"
    /\ event_result' = IF DMXEventValid(start_time, speed) THEN "constructed"
                       ELSE "ValidationError"
    /\ UNCHANGED <<start_fields, start_time, speed, codecVars, timelineVars, genVars, serviceVars>>

EventNext == ConstructEvent

SpecEvent == EventInit /\ [][EventNext]_vars

\* the value of a field that int() accepts exceeds max
FieldExceeds(field, max) == IsInt(field) /\ IntOf(field) > max


\* C3: constructing a DMXEvent fails with a validation error for every
\* start_time that has hours > 23, minutes > 59, seconds > 59, or a number
\* of colon-delimited components other than three.
C3_RejectsOutOfRange ==
    (/\ event_result # "new"
     /\ \/ start_fields.n # 3
        \/ FieldExceeds(start_fields.hours, 23)
        \/ FieldExceeds(start_fields.minutes, 59)
        \/ FieldExceeds(start_fields.seconds, 59))
        => event_result = "ValidationError"

\* the constructor has rejected 24:00:05.0, whose only fault is its hours
C3_Witness ==
    /\ event_result = "ValidationError"
    /\ start_time = <<"2", "4", ":", "0", "0", ":", "0", "5", ".", "0">>
    /\ speed = 100

\* C10: every start_time the DMXEvent constructor accepts has a decisecond
\* field in 0..9.
C10_DecisecondInRange ==
    event_result = "constructed"
        => \/ start_fields.fraction = None
           \/ /\ IsInt(start_fields.fraction[1])
              /\ 0 <= IntOf(start_fields.fraction[1])
              /\ IntOf(start_fields.fraction[1]) <= 9


(***************************************************************************)
(* SpecTimeline: add_event and to_tml_format called in any order on two    *)
(* DMXTimeline objects.                                                    *)
(***************************************************************************)
\* add_event calls made on the two objects together
MaxEvents == 3

Objs == {1, 2}

\* the constructor arguments of the objects: the generators' (ten tracks,
\* audio reference) and a bare timeline
ParamPool ==
    { DMXTimeline(10, TRUE, Some(<<"song.mp3">>), Some(FormatDuration(FromInt(185)))),
      DMXTimeline(2, FALSE, None, None) }

\* validated events handed to add_event: different tracks and start times,
\* optional fields absent, empty, zero and set
EventPool ==
    { [DMXEvent(3, FormatTime(FromInt(10)), <<"solid_color/", "blue", ".scex">>,
                Some(FormatDuration(FromInt(2))), 100, PERCENTAGE, Some(200), Some(500))
            EXCEPT !.bpm = Some(120), !.volume = Some(0)],
      DMXEvent(4, FormatTime(FromRatio(5, 2)), <<"OFF">>,
               None, 50, BPM_BASED, None, None),
      [DMXEvent(3, FormatTime(FZero), <<"flash/", "white", ".scex">>,
                Some(<<>>), 1, PERCENTAGE, Some(0), Some(0))
            EXCEPT !.bpm = Some(0), !.volume = Some(80)] }

TimelineInit ==
    /\ timelines \in [Objs -> ParamPool]
    /\ added = [o \in Objs |-> <<>>]
    /\ tml = [o \in Objs |-> None]
    /\ CodecIdle /\ EventIdle /\ GenIdle

\* timeline.add_event(event)
AddEvent(o, event) ==
    /\ Len(added[1]) + Len(added[2]) < MaxEvents
    /\ timelines' = [timelines EXCEPT ![o] = add_event(timelines[o], event)]
    /\ added' = [added EXCEPT ![o] = Append(added[o], event)]
    /\ UNCHANGED <<tml, codecVars, eventVars, genVars, serviceVars>>

\* a to_tml_format that consumes the events it serializes
ToTmlFormatDraining(o) ==
    /\ timelines' = [timelines EXCEPT ![o].events = <<>>]
    /\ tml' = [tml EXCEPT ![o] = Some(
            [self   |-> timelines[o],
             added  |-> added[o],
             text   |-> to_tml_format(timelines[o]),
             after  |-> timelines'[o],
             again  |-> tml[o] # None /\ tml[o][1].after = timelines[o],
             before |-> IF tml[o] # None THEN tml[o][1].text ELSE <<>>])]
    /\ UNCHANGED <<added, codecVars, eventVars, genVars, serviceVars>>

\* text = timeline.to_tml_format(): the call leaves self as it is; the record
\* keeps self before and after, the text, and the text of the call before
\* this one when self was the same then
ToTmlFormat(o) ==
    /\ timelines' = timelines
    /\ tml' = [tml EXCEPT ![o] = Some(
            [self   |-> timelines[o],
             added  |-> added[o],
             text   |-> to_tml_format(timelines[o]),
             after  |-> timelines'[o],
             again  |-> tml[o] # None /\ tml[o][1].after = timelines[o],
             before |-> IF tml[o] # None THEN tml[o][1].text ELSE <<>>])]
    /\ UNCHANGED <<added, codecVars, eventVars, genVars, serviceVars>>

TimelineNext ==
    \/ \E o \in Objs, event \in EventPool : AddEvent(o, event)
    \/ \E o \in Objs : ToTmlFormat(o)

SpecTimeline == TimelineInit /\ [][TimelineNext]_vars

\* the lines of a text, and the positions of its section headers [Event_n]
TextLines(text) == Split(text, "\n")

IsEventHeader(line) == Len(line) >= 3 /\ line[1] = "[Event_" /\ line[Len(line)] = "]"

HeaderLines(lines) ==
    SelectSeq([i \in 1..Len(lines) |-> i], LAMBDA i : IsEventHeader(lines[i]))

HeaderNumber(line) == SubSeq(line, 2, Len(line) - 1)

HasAudioSection(self) == TruthyStr(self.audio_file) /\ TruthyStr(self.audio_length)

\* the text has, after the audio section [Event_0] if self has an audio
\* reference, exactly the sections [Event_1]..[Event_k], the i-th of them
\* starting with the track, start time and path of e_i
SectionsFollow(text, self, events) ==
    LET lines == TextLines(text)
        heads == HeaderLines(lines)
        skip  == IF HasAudioSection(self) THEN 1 ELSE 0
    IN  /\ Len(heads) = skip + Len(events)
        /\ skip = 1 => HeaderNumber(lines[heads[1]]) = <<"0">>
        /\ \A i \in 1..Len(events) :
            LET at == heads[skip + i]
            IN  /\ HeaderNumber(lines[at]) = IntStr(i)
                /\ at + 3 <= Len(lines)
                /\ lines[at + 1] = <<"TimeLineIndex = ">> \o IntStr(events[i].timeline_index)
                /\ lines[at + 2] = <<"StartTime = ">> \o events[i].start_time
                /\ lines[at + 3] = <<"Path = ">> \o events[i].path

\* C1: after any sequence of add_event calls e1..ek on a timeline, its event
\* list is e1..ek in call order, and the text to_tml_format returns has one
\* section per event, numbered [Event_1]..[Event_k] in insertion order, the
\* i-th carrying the TimeLineIndex, StartTime and Path of e_i
C1_InsertionOrder ==
    \A o \in Objs :
        /\ o \in DOMAIN timelines => timelines[o].events = added[o]
        /\ o \in DOMAIN tml /\ tml[o] # None =>
            SectionsFollow(tml[o][1].text, tml[o][1].self, tml[o][1].added)

\* three events serialized that were added out of time order, the first and
\* the third the same event
C1_Witness ==
    \E o \in Objs :
        /\ o \in DOMAIN tml /\ tml[o] # None
        /\ LET es == tml[o][1].added
           IN  /\ Len(es) = 3 /\ es[1] = es[3]
               /\ FLess(TimeToSeconds(es[2].start_time), TimeToSeconds(es[1].start_time))
               /\ HasAudioSection(tml[o][1].self)

\* the event list and the parameters to_tml_format reads
Serialized(self) ==
    <<self.events, self.version, self.max_time, self.light_timelines,
      self.media_timelines, self.show_waveform, self.audio_file, self.audio_length>>

EventSection(text, self, i) ==
    LET lines == TextLines(text)
        heads == HeaderLines(lines)
        at    == heads[(IF HasAudioSection(self) THEN 1 ELSE 0) + i]
        stop  == IF \E h \in Choice(heads) : h > at
                 THEN (CHOOSE h \in Choice(heads) :
                          h > at /\ \A g \in Choice(heads) : g > at => h <= g) - 1
                 ELSE Len(lines)
    IN  SubSeq(lines, at + 1, stop)

\* the section has a line of the key
HasLine(section, key) == \E l \in 1..Len(section) : section[l][1] = key

\* C18: in the text to_tml_format returns, the section of every event has a
\* Length line iff the event has a length, a FadeIn (FadeOut) line iff
\* fade_in (fade_out) is present and not zero, a BPM line iff bpm is
\* present, a Volume line iff volume is not None (a volume of 0 included),
\* and always a Speed and a SpeedType line
C18_OptionalLines ==
    \A o \in Objs :
        o \in DOMAIN tml /\ tml[o] # None =>
            \A i \in 1..Len(tml[o][1].added) :
                LET event   == tml[o][1].added[i]
                    section == EventSection(tml[o][1].text, tml[o][1].self, i)
                IN  /\ HasLine(section, "Length = ") <=> event.length # None
                    /\ HasLine(section, "FadeIn = ") <=>
                            event.fade_in # None /\ event.fade_in[1] # 0
                    /\ HasLine(section, "FadeOut = ") <=>
                            event.fade_out # None /\ event.fade_out[1] # 0
                    /\ HasLine(section, "BPM = ") <=> event.bpm # None
                    /\ HasLine(section, "Volume = ") <=> event.volume # None
                    /\ HasLine(section, "Speed = ")
                    /\ HasLine(section, "SpeedType = ")



(***************************************************************************)
(* SpecGen: a generator is called twice with the same arguments.           *)
(***************************************************************************)
Runs == {1, 2}

\* one moving head and one numbered wall spot, as load_fixtures leaves them
Rig ==
    << [name  |-> <<"M", "H">>,
        model |-> <<"I", "n", "t", "i", "m", "i", "d", "a", "t", "o", "r">>],
       [name  |-> <<"S", "p", "o", "t", "_", "#", "2">>,
        model |-> <<"P", "A", "R">>] >>

\* a 30 s track at 120 bpm, happy and loud, nothing detected in it
BaseAnalysis ==
    [file_path_name |-> <<"song.mp3">>, duration |-> 30,
     features |-> [bpm |-> 120, energy |-> FromRatio(9, 10), valence |-> FromRatio(8, 10)],
     beats |-> <<>>, spectral_centroids |-> <<>>, onset_times |-> <<>>]

\* the analyses handed to generate_timeline: beats and onsets inside the
\* track, at and beyond 24 h, and before 0; energy from the feature and
\* from the centroids; a track shorter than the ambient margins
AnalysisPool ==
    { BaseAnalysis,
      [BaseAnalysis EXCEPT !.beats = <<FromRatio(1, 2), FromInt(1)>>],
      [BaseAnalysis EXCEPT !.onset_times = <<FromInt(12), FromInt(13)>>],
      [BaseAnalysis EXCEPT !.onset_times = <<FromInt(12), FromRatio(49, 4)>>,
                           !.features.energy = FromRatio(6, 10)],
      [BaseAnalysis EXCEPT !.beats = <<FromRatio(172801, 2)>>],
      [BaseAnalysis EXCEPT !.beats = <<FNeg(FromRatio(1, 2))>>],
      [BaseAnalysis EXCEPT !.onset_times = <<FromInt(86400)>>],
      [BaseAnalysis EXCEPT !.duration = 8, !.features.valence = FromRatio(3, 10),
                           !.onset_times = <<FromInt(86400)>>,
                           !.features.energy = FromRatio(5, 10)],
      [BaseAnalysis EXCEPT !.duration = 8],
      [BaseAnalysis EXCEPT !.spectral_centroids = <<1000, 2000, 800>>,
                           !.onset_times = <<FromInt(5), FromInt(12), FromInt(25)>>] }

TimelineJobs ==
    { [generator |-> "TimelineGenerator",
       self |-> [fixtures |-> fixtures, config |-> GenerationConfig],
       analysis |-> analysis, output_path |-> output_path] :
        fixtures \in {<<>>, Rig}, analysis \in AnalysisPool,
        output_path \in {None, Some(<<"out.tml">>)} }

\* a 30 s track that is one 8 s intro, happy, with flat bands, no beats, no
\* transients, no sustain and a single chroma frame
BaseRecord ==
    [duration |-> 30,
     structure |-> [sections |->
        << [type |-> "intro", start_time |-> FZero, duration |-> FromInt(8),
            energy |-> FromRatio(3, 10)] >>],
     emotional_content |-> [emotion_category |-> "energetic_happy",
                            valence |-> FromRatio(8, 10)],
     frequency_bands |->
        [sub_bass |-> <<1, 1, 1>>, bass |-> <<1, 1, 1>>, low_mid |-> <<1, 1, 1>>,
         mid |-> <<1, 1, 1>>, high_mid |-> <<1, 1, 1>>, presence |-> <<1, 1, 1>>,
         brilliance |-> <<1, 1, 1>>],
     rhythm |-> [downbeats |-> <<>>, beat_strength |-> <<>>, syncopation |-> <<>>,
                 beat_times |-> <<>>],
     dynamics |-> [transients |-> <<>>, sustain_regions |-> <<>>],
     harmonic |-> [chroma |-> << <<1>>, <<0>> >>]]

Section(type, start, duration) ==
    [type |-> type, start_time |-> FromInt(start), duration |-> FromInt(duration),
     energy |-> FromRatio(3, 10)]

\* the records analyze_for_lighting hands to the generator: sections of
\* every type, a band with a peak and one with two equal peaks, strong
\* downbeats, syncopation, transients inside the track, close together, at
\* 24 h and before 0, sustained stretches, a harmonic change, a sad track
\* without sections, a track shorter than the ambient margins
RecordPool ==
    { BaseRecord,
      [BaseRecord EXCEPT !.rhythm.downbeats = <<FromInt(2)>>,
                         !.rhythm.beat_strength = <<FromRatio(9, 10)>>],
      [BaseRecord EXCEPT !.rhythm.downbeats = <<FromInt(2), FromRatio(8639995, 100)>>,
                         !.rhythm.beat_strength = <<FromRatio(7, 10), FromRatio(9, 10)>>],
      [BaseRecord EXCEPT !.structure.sections =
            <<Section("intro", 0, 8), Section("verse", 8, 10)>>],
      [BaseRecord EXCEPT !.structure.sections =
            <<Section("intro", 0, 8), Section("chorus", 8, 10)>>],
      [BaseRecord EXCEPT !.structure.sections = <<Section("outro", 20, 10)>>],
      [BaseRecord EXCEPT !.frequency_bands.bass = <<0, 5, 0>>],
      [BaseRecord EXCEPT !.frequency_bands.sub_bass = <<9, 10, 0, 10, 5>>,
                         !.frequency_bands.mid = <<9, 10, 0, 10, 5>>],
      [BaseRecord EXCEPT !.rhythm.syncopation = <<1, 1, 0>>],
      [BaseRecord EXCEPT !.dynamics.transients = <<FromInt(5), FromRatio(502, 100)>>],
      [BaseRecord EXCEPT !.dynamics.transients = <<FromInt(5), FromInt(86400)>>],
      [BaseRecord EXCEPT !.dynamics.transients = <<FNeg(FromInt(1))>>],
      [BaseRecord EXCEPT !.dynamics.sustain_regions =
            <<FALSE, TRUE, TRUE, FALSE, FALSE, TRUE, FALSE>>],
      [BaseRecord EXCEPT !.harmonic.chroma = << <<0, 0, 0, 1>>, <<1, 1, 1, 0>> >>],
      [BaseRecord EXCEPT !.structure.sections = <<>>,
                         !.emotional_content.emotion_category = "melancholic",
                         !.emotional_content.valence = FromRatio(3, 10)],
      [BaseRecord EXCEPT !.duration = 5, !.structure.sections = <<Section("intro", 0, 5)>>] }

SpectacularJobs ==
    { [generator |-> "SpectacularTimelineGenerator",
       audio_path_name |-> <<"song.mp3">>,
       analysis |-> analysis, output_path |-> output_path] :
        analysis \in RecordPool, output_path \in {None, Some(<<"out.tml">>)} }

GenInit ==
    /\ job \in TimelineJobs \cup SpectacularJobs
    /\ runs = [r \in Runs |-> None]
    /\ CodecIdle /\ EventIdle /\ TimelineIdle /\ ServiceIdle

\* generator.generate_timeline(analysis, output_path)
RunTimelineGenerator(r) ==
    /\ job.generator = "TimelineGenerator"
    /\ runs[r] = None
    /\ \E outcome \in GenerateTimeline(job.self, job.analysis, job.output_path) :
        runs' = [runs EXCEPT ![r] = Some(outcome)]
    /\ UNCHANGED <<job, codecVars, eventVars, timelineVars, serviceVars>>

\* generator.generate_spectacular_timeline(audio_path, output_path)
RunSpectacularTimelineGenerator(r) ==
    /\ job.generator = "SpectacularTimelineGenerator"
    /\ runs[r] = None
    /\ \E outcome \in GenerateSpectacularTimeline(job.audio_path_name, job.analysis,
                                                 job.output_path) :
        runs' = [runs EXCEPT ![r] = Some(outcome)]
    /\ UNCHANGED <<job, codecVars, eventVars, timelineVars, serviceVars>>

GenNext ==
    \/ \E r \in Runs : RunTimelineGenerator(r)
    \/ \E r \in Runs : RunSpectacularTimelineGenerator(r)

SpecGen == GenInit /\ [][GenNext]_vars

\* the events of a run that returned a timeline, <<>> for one that raised
EventsOf(run) == IF run.returned = None THEN <<>> ELSE run.returned[1].events

Completed(r) == r \in DOMAIN runs /\ runs[r] # None

\* C4: in the timeline either generator returns, the events stand in
\* non-decreasing numeric start time
C4_EventsInTimeOrder ==
    \A r \in Runs : Completed(r) =>
        LET events == EventsOf(runs[r][1])
        IN  \A i, j \in 1..Len(events) :
                i < j => FLeq(TimeToSeconds(events[i].start_time),
                              TimeToSeconds(events[j].start_time))

\* generate_spectacular_timeline returned a timeline whose events were
\* built in another order than that of their start times
C4_Witness ==
    \E r \in Runs :
        /\ Completed(r) /\ runs[r][1].returned # None
        /\ job.generator = "SpectacularTimelineGenerator"
        /\ Len(EventsOf(runs[r][1])) >= 3
        /\ \E i, j \in 1..Len(runs[r][1].built) :
            /\ i < j
            /\ FLess(TimeToSeconds(runs[r][1].built[j].start_time),
                     TimeToSeconds(runs[r][1].built[i].start_time))

\* track, start time, path and length of each event, in order
Listing(events) ==
    [i \in 1..Len(events) |->
        <<events[i].timeline_index, events[i].start_time, events[i].path,
          events[i].length>>]

\* C5: two runs of TimelineGenerator.generate_timeline on the same
\* analysis, fixtures and configuration end the same way and produce the
\* same event list
C5_SameEventsOnRerun ==
    /\ Completed(1) /\ Completed(2)
    /\ job.generator = "TimelineGenerator"
    => /\ runs[1][1].raised = runs[2][1].raised
       /\ Listing(EventsOf(runs[1][1])) = Listing(EventsOf(runs[2][1]))

\* C7: a run in which a DMXEvent(...) call was made with arguments that
\* fail validation raised, returned no timeline and wrote no file
C7_InvalidCandidateAborts ==
    \A r \in Runs :
        /\ Completed(r)
        /\ \E i \in 1..Len(runs[r][1].built) :
            ~ (/\ ValidStartTime(runs[r][1].built[i].start_time)
               /\ ValidSpeed(runs[r][1].built[i].speed))
        => /\ runs[r][1].raised # None
           /\ runs[r][1].returned = None
           /\ runs[r][1].file = None

\* a run with an output path built valid events and then one whose start
\* time is at 24 h, and raised ValidationError
C7_Witness ==
    \E r \in Runs :
        /\ Completed(r) /\ job.output_path # None
        /\ runs[r][1].raised = Some("ValidationError")
        /\ Len(runs[r][1].built) >= 2
        /\ ValidStartTime(runs[r][1].built[1].start_time)
        /\ ~ ValidStartTime(runs[r][1].built[Len(runs[r][1].built)].start_time)

\* the active interval [start_time, start_time + length) of two events
\* intersect
Overlap(e1, e2) ==
    LET s1 == TimeToSeconds(e1.start_time)
        s2 == TimeToSeconds(e2.start_time)
        l1 == TimeToSeconds(e1.length[1])
        l2 == TimeToSeconds(e2.length[1])
    IN  /\ FLess(FZero, l1) /\ FLess(FZero, l2)
        /\ FLess(s1, FAdd(s2, l2))
        /\ FLess(s2, FAdd(s1, l1))

\* C8: in the timeline a generation run returns, no two events on the same
\* track have overlapping active intervals
C8_NoOverlapOnTrack ==
    \A r \in Runs : Completed(r) =>
        LET events == EventsOf(runs[r][1])
        IN  \A i, j \in 1..Len(events) :
                i < j /\ events[i].timeline_index = events[j].timeline_index
                => ~ Overlap(events[i], events[j])


(***************************************************************************)
(* SpecSections: _classify_sections called on tracks of up to MaxSegments  *)
(* segments.                                                               *)
(***************************************************************************)
MaxSegments == 4

\* the segments a track is cut into: one or two frames of low, middling
\* and high energy, and the empty segment of two equal boundary times
SegmentPool == {<<>>, <<1>>, <<2>>, <<6>>, <<9>>, <<9, 9>>}

RECURSIVE Tracks(_)
Tracks(n) ==
    IF n = 0 THEN {<<>>}
    ELSE Tracks(n - 1) \cup
         {Append(t, s) : t \in {u \in Tracks(n - 1) : Len(u) = n - 1}, s \in SegmentPool}

SectionsInit ==
    /\ job \in {[function |-> "_classify_sections", segments |-> t] :
                    t \in Tracks(MaxSegments)}
    /\ runs = <<None>>
    /\ CodecIdle /\ EventIdle /\ TimelineIdle /\ ServiceIdle

\* sections = self._classify_sections(y, sr, boundary_times)
CallClassifySections ==
    /\ runs[1] = None
    /\ runs' = <<Some(ClassifySections(job.segments))>>
    /\ UNCHANGED <<job, codecVars, eventVars, timelineVars, serviceVars>>

SectionsNext == CallClassifySections

SpecSections == SectionsInit /\ [][SectionsNext]_vars

\* the label the classification policy gives segment i: chorus when the
\* mean energy of the segment exceeds the 75th percentile of the energies
\* of the track's frames
PolicyType(segments, i) ==
    IF i = 0 THEN "intro"
    ELSE IF i = Len(segments) - 1 THEN "outro"
    ELSE IF AbovePercentile(SumSeq(segments[i + 1]),
                [k \in 1..Len(TrackFrames(segments)) |->
                    TrackFrames(segments)[k] * Len(segments[i + 1])], 75)
    THEN "chorus"
    ELSE "verse"

\* C11: every section _classify_sections returns carries the label of the
\* policy: intro for the first segment, outro for the last, and for the
\* others chorus exactly when the energy is above the 75th percentile of
\* the whole-track RMS energy, verse otherwise
C11_SectionLabels ==
    runs # <<>> /\ runs[1] # None =>
        \A k \in 1..Len(runs[1][1]) :
            runs[1][1][k].type = PolicyType(job.segments, runs[1][1][k].start_time)


(***************************************************************************)
(* SpecEffects: each generator of SpectacularTimelineGenerator called on   *)
(* its own with a synthetic analysis record.                               *)
(***************************************************************************)
\* a band curve with two peaks further than 10 samples apart
FarPeaks == <<0, 5, 0, 0, 0, 0, 0, 0, 0, 0, 0, 0, 4, 0>>

\* the records of RecordPool and, with them: a band with two peaks of
\* different height close together, bands with two peaks far apart, bands
\* that are all zero, empty bands; downbeats that are strong, weak and
\* beyond the strengths, at 4.0 s and at 1.2 s; sustain masks with a run at
\* the start, a run that reaches the last sample, runs of 1 s, 2 s and
\* 3 s; chroma that is constant over 0, 1, 2 and 3 frames
EffectRecords ==
    RecordPool \cup
    { [BaseRecord EXCEPT !.frequency_bands.bass = <<0, 5, 0, 3, 0>>],
      [BaseRecord EXCEPT !.frequency_bands =
            [band \in DOMAIN BaseRecord.frequency_bands |->
                IF band = "mid" THEN FarPeaks ELSE [i \in 1..Len(FarPeaks) |-> 1]]],
      [BaseRecord EXCEPT !.frequency_bands =
            [band \in DOMAIN BaseRecord.frequency_bands |-> <<0, 0, 0>>]],
      [BaseRecord EXCEPT !.frequency_bands =
            [band \in DOMAIN BaseRecord.frequency_bands |-> <<>>]],
      [BaseRecord EXCEPT !.rhythm.downbeats = <<FromInt(1), FromInt(2), FromInt(3)>>,
                         !.rhythm.beat_strength = <<FromRatio(9, 10), FromRatio(5, 10)>>],
      [BaseRecord EXCEPT !.rhythm.downbeats = <<FromInt(4)>>,
                         !.rhythm.beat_strength = <<FromRatio(9, 10)>>],
      [BaseRecord EXCEPT !.rhythm.downbeats = <<FromRatio(12, 10), FromInt(3)>>,
                         !.rhythm.beat_strength = <<FromRatio(8, 10)>>],
      [BaseRecord EXCEPT !.dynamics.sustain_regions = <<TRUE, TRUE, FALSE, FALSE>>],
      [BaseRecord EXCEPT !.dynamics.sustain_regions = <<FALSE, TRUE, TRUE, TRUE>>],
      [BaseRecord EXCEPT !.duration = 6, !.dynamics.sustain_regions =
            <<FALSE, TRUE, FALSE, TRUE, TRUE, TRUE, FALSE>>],
      [BaseRecord EXCEPT !.duration = 6, !.dynamics.sustain_regions =
            <<FALSE, TRUE, TRUE, FALSE, FALSE, FALSE, FALSE>>],
      [BaseRecord EXCEPT !.harmonic.chroma = << <<>>, <<>> >>],
      [BaseRecord EXCEPT !.harmonic.chroma = << <<1, 1>>, <<0, 0>> >>],
      [BaseRecord EXCEPT !.harmonic.chroma = << <<2, 2, 2>>, <<1, 1, 1>> >>],
      [BaseRecord EXCEPT !.harmonic.chroma = << <<0, 0, 3, 3, 3, 3, 3, 3>>,
                                                <<0, 0, 0, 0, 0, 0, 0, 0>> >>] }

EffectGenerators ==
    {"_generate_structural_effects", "_generate_frequency_band_effects",
     "_generate_rhythm_effects", "_generate_dynamic_effects",
     "_generate_harmonic_effects", "_generate_emotional_ambient"}

EffectsInit ==
    /\ job \in {[generator |-> g, analysis |-> a] :
                    g \in EffectGenerators, a \in EffectRecords}
    /\ runs = <<None>>
    /\ CodecIdle /\ EventIdle /\ TimelineIdle /\ ServiceIdle

\* the call of job.generator ends with outcome
Returns(generator, outcome) ==
    /\ job.generator = generator
    /\ runs[1] = None
    /\ runs' = <<Some(outcome)>>
    /\ UNCHANGED <<job, codecVars, eventVars, timelineVars, serviceVars>>

CallStructuralEffects ==
    Returns("_generate_structural_effects", GenerateStructuralEffects(job.analysis))

CallFrequencyBandEffects ==
    \E outcome \in GenerateFrequencyBandEffects(job.analysis) :
        Returns("_generate_frequency_band_effects", outcome)

CallRhythmEffects ==
    Returns("_generate_rhythm_effects", GenerateRhythmEffects(job.analysis))

CallDynamicEffects ==
    Returns("_generate_dynamic_effects", GenerateDynamicEffects(job.analysis))

CallHarmonicEffects ==
    Returns("_generate_harmonic_effects", GenerateHarmonicEffects(job.analysis))

CallEmotionalAmbient ==
    Returns("_generate_emotional_ambient", GenerateEmotionalAmbient(job.analysis))

EffectsNext ==
    \/ CallStructuralEffects
    \/ CallFrequencyBandEffects
    \/ CallRhythmEffects
    \/ CallDynamicEffects
    \/ CallHarmonicEffects
    \/ CallEmotionalAmbient

SpecEffects == EffectsInit /\ [][EffectsNext]_vars

\* the call of generator has ended
Called(generator) ==
    /\ runs # <<>> /\ runs[1] # None
    /\ "generator" \in DOMAIN job /\ job.generator = generator


\* the numbers of peaks find_peaks retains in the mapped bands from band b on
RECURSIVE RetainedPeaks(_, _)
RetainedPeaks(bands, b) ==
    IF b > Len(frequency_to_fixtures) THEN {0}
    ELSE IF bands[frequency_to_fixtures[b]] = <<>> THEN RetainedPeaks(bands, b + 1)
    ELSE { Cardinality(peaks) + n :
             peaks \in FindEnergyPeaks(bands[frequency_to_fixtures[b]], FromRatio(3, 10)),
             n \in RetainedPeaks(bands, b + 1) }

\* C12: _generate_frequency_band_effects returns one event for every peak
\* retained in a mapped band (peaks closer than 10 samples count once)
C12_OneEventPerPeak ==
    Called("_generate_frequency_band_effects") =>
        /\ runs[1][1].raised = None
        /\ Len(runs[1][1].events) \in RetainedPeaks(job.analysis.frequency_bands, 1)


\* every pitch class of chroma has the same energy in all the frames
ConstantChroma(chroma) ==
    \A p \in 1..Len(chroma) : \A t \in 1..Len(chroma[p]) : chroma[p][t] = chroma[p][1]

\* C13: _generate_harmonic_effects returns no event, and raises nothing,
\* when the chroma is constant across frames, whatever the number of
\* frames (0 and 1 included)
C13_ConstantChromaNoEvents ==
    Called("_generate_harmonic_effects") /\ ConstantChroma(job.analysis.harmonic.chroma) =>
        runs[1][1] = Nothing

\* the call on a constant chroma of 3 frames has returned
C13_Witness ==
    /\ Called("_generate_harmonic_effects")
    /\ ConstantChroma(job.analysis.harmonic.chroma)
    /\ Len(job.analysis.harmonic.chroma[1]) = 3
    /\ runs[1][1].raised = None


\* the maximal runs of True in mask, as <<first, last>> sample indices
MaximalRuns(mask) ==
    { run \in (0..(Len(mask) - 1)) \X (0..(Len(mask) - 1)) :
        /\ run[1] <= run[2]
        /\ \A k \in run[1]..run[2] : mask[k + 1]
        /\ run[1] = 0 \/ ~mask[run[1]]
        /\ run[2] = Len(mask) - 1 \/ ~mask[run[2] + 2] }

\* the time from the run's first sample to the sample that ends it: the
\* first False sample after it or, for a run that reaches the end of the
\* mask, the last sample
MeasuredDuration(analysis, run) ==
    LET mask  == analysis.dynamics.sustain_regions
        times == Linspace(analysis.duration, Len(mask))
        stop  == IF run[2] + 1 < Len(mask) THEN run[2] + 1 ELSE run[2]
    IN  FSub(times[stop + 1], times[run[1] + 1])

\* C14: _generate_dynamic_effects returns, for every maximal run of True in
\* the sustain mask measured longer than 2.0 s, exactly one track 6 event
\* with the run's start time and measured duration, wherever the run lies,
\* and no track 6 event for the other runs (of the calls that return)
C14_OneEventPerSustainRun ==
    Called("_generate_dynamic_effects") /\ runs[1][1].raised = None =>
        LET analysis == job.analysis
            mask   == analysis.dynamics.sustain_regions
            times  == Linspace(analysis.duration, Len(mask))
            events == runs[1][1].events
            track6 == {k \in 1..Len(events) : events[k].timeline_index = 6}
            long   == {run \in MaximalRuns(mask) :
                          FLess(FromInt(2), MeasuredDuration(analysis, run))}
        IN  /\ Cardinality(track6) = Cardinality(long)
            /\ \A run \in long :
                  \E k \in track6 :
                      /\ events[k].start_time = FormatTime(times[run[1] + 1])
                      /\ events[k].length =
                            Some(FormatDuration(MeasuredDuration(analysis, run)))


\* the strength _generate_rhythm_effects associates with downbeat i
DownbeatStrength(rhythm, i) ==
    LET last == Len(rhythm.beat_strength) - 1
    IN  IF i < Len(rhythm.beat_strength)
        THEN rhythm.beat_strength[(IF i * 4 < last THEN i * 4 ELSE last) + 1]
        ELSE FromRatio(5, 10)

\* the tenths of a second an H:MM:SS.f string stands for
Tenths(s) ==
    LET parts == Split(s, ":")
        secs  == Split(parts[3], ".")
    IN  ((IntOf(parts[1]) * 60 + IntOf(parts[2])) * 60 + IntOf(secs[1])) * 10
            + IntOf(secs[2])

\* C15: _generate_rhythm_effects returns, for every downbeat whose strength
\* exceeds 0.7, exactly two events, one on track 3 at the downbeat time and
\* one on track 4 that starts 0.1 s after it, and no event for the other
\* downbeats (of the calls that return)
C15_StrongDownbeatPairs ==
    Called("_generate_rhythm_effects") /\ runs[1][1].raised = None =>
        LET rhythm == job.analysis.rhythm
            events == runs[1][1].events
            strong == {i \in 0..(Len(rhythm.downbeats) - 1) :
                          FLess(FromRatio(7, 10), DownbeatStrength(rhythm, i))}
        IN  /\ Len(events) = 2 * Cardinality(strong)
            /\ \A i \in strong :
                  \E k \in 1..(Len(events) - 1) :
                      /\ events[k].timeline_index = 3
                      /\ events[k].start_time = FormatTime(rhythm.downbeats[i + 1])
                      /\ events[k + 1].timeline_index = 4
                      /\ Tenths(events[k + 1].start_time) = Tenths(events[k].start_time) + 1


\* C17: each of the six generators of SpectacularTimelineGenerator returns
\* a list of events, raising nothing, on every synthetic analysis record
C17_GeneratorsReturn ==
    \A generator \in EffectGenerators :
        Called(generator) => runs[1][1].raised = None


\* C16: the path of every event a generator returns resolves, read back
\* from the timeline's text by the renderer's _parse_scene_path and
\* _get_fixtures_for_group, to a group with fixtures
C16_NoOrphanPaths ==
    \A r \in Runs :
        Completed(r) =>
            \A k \in 1..Len(EventsOf(runs[r][1])) :
                GetFixturesForGroup(ParseScenePath(LoadedPath(EventsOf(runs[r][1])[k]))) # {}


(***************************************************************************)
(* SpecParse: _time_to_seconds of the two generators and of the player     *)
(* called on strings of 1..MaxComponents colon-delimited components.       *)
(***************************************************************************)
\* the exception _time_to_seconds raises on time_str, statement by
\* statement: int() of a field that is no number raises ValueError, a
\* missing parts[1] or parts[2] IndexError
TimeToSecondsRaises(s) ==
    LET parts == Split(s, ":")
    IN  IF ~IsInt(parts[1]) THEN Some("ValueError")
        ELSE IF Len(parts) < 2 THEN Some("IndexError")
        ELSE IF ~IsInt(parts[2]) THEN Some("ValueError")
        ELSE IF Len(parts) < 3 THEN Some("IndexError")
        ELSE IF ~IsInt(Split(parts[3], ".")[1]) THEN Some("ValueError")
        ELSE IF Len(Split(parts[3], ".")) > 1 /\ ~IsInt(Split(parts[3], ".")[2])
        THEN Some("ValueError")
        ELSE None

\* _time_to_seconds of the generators: the number, or the exception
TimeToSecondsCall(s) ==
    IF TimeToSecondsRaises(s) = None
    THEN [returned |-> Some(TimeToSeconds(s)), raised |-> None]
    ELSE [returned |-> None, raised |-> TimeToSecondsRaises(s)]

\* TimelinePlayer._time_to_seconds: the same statements inside try, and
\* except: return 0.0
PlayerTimeToSeconds(s) ==
    IF TimeToSecondsRaises(s) = None
    THEN [returned |-> Some(TimeToSeconds(s)), raised |-> None]
    ELSE [returned |-> Some(FZero), raised |-> None]

ParseInit ==
    /\ job \in { [owner |-> owner, time_str |-> StartTimeOf(f)] :
                    owner \in {"TimelineGenerator", "SpectacularTimelineGenerator",
                               "TimelinePlayer"},
                    f \in {f \in StartFields :
                            /\ f.n < 2 => f.minutes = <<"0", "0">>
                            /\ f.n < 3 => (f.seconds = <<"0", "5">> /\ f.fraction = None)} }
    /\ runs = <<None>>
    /\ CodecIdle /\ EventIdle /\ TimelineIdle /\ ServiceIdle

\* self._time_to_seconds(time_str) of a generator
CallTimeToSeconds ==
    /\ job.owner # "TimelinePlayer"
    /\ runs[1] = None
    /\ runs' = <<Some(TimeToSecondsCall(job.time_str))>>
    /\ UNCHANGED <<job, codecVars, eventVars, timelineVars, serviceVars>>

\* self._time_to_seconds(time_str) of the player
CallPlayerTimeToSeconds ==
    /\ job.owner = "TimelinePlayer"
    /\ runs[1] = None
    /\ runs' = <<Some(PlayerTimeToSeconds(job.time_str))>>
    /\ UNCHANGED <<job, codecVars, eventVars, timelineVars, serviceVars>>

ParseNext == CallTimeToSeconds \/ CallPlayerTimeToSeconds

SpecParse == ParseInit /\ [][ParseNext]_vars

\* C19: _time_to_seconds ends with an error, and returns no number, for
\* every string that has fewer or more than three colon-delimited
\* components
C19_RejectsOtherThanThreeComponents ==
    /\ runs # <<>> /\ runs[1] # None
    /\ "time_str" \in DOMAIN job
    /\ Len(Split(job.time_str, ":")) # 3
    => runs[1][1].raised # None /\ runs[1][1].returned = None


(***************************************************************************)
(* SpecFixtures: TimelineGenerator.load_fixtures and generate_dmx_timeline *)
(* with a fixtures_path.  What is at a path is [exists, parses, sections]:  *)
(* whether there is a file, whether configparser can parse it, and its     *)
(* sections, each with its name and its options (None for an absent one).  *)
(***************************************************************************)
\* DMXFixture(id=int(data.get("id", 0)), ..., channels=4) of one section:
\* the fixture, or the exception int() or the validation raises
NewFixture(data) ==
    LET Get(option, default) == IF option = None THEN default ELSE option[1]
        id      == Get(data.id, <<"0">>)
        address == Get(data.address, <<"1">>)
    IN  IF ~IsInt(id) \/ ~IsInt(address) THEN [fixture |-> None, raised |-> Some("ValueError")]
        ELSE IF IntOf(address) < 1 \/ IntOf(address) > 512
        THEN [fixture |-> None, raised |-> Some("ValidationError")]
        ELSE [fixture |-> Some([id |-> IntOf(id), name |-> Get(data.name, <<>>),
                                address |-> IntOf(address), model |-> Get(data.model, <<>>),
                                group |-> Get(data.group, <<>>), channels |-> 4]),
              raised |-> None]

\* the loop of load_fixtures over config.sections(), from section i on
RECURSIVE FixturesFrom(_, _, _)
FixturesFrom(sections, i, fixtures) ==
    IF i > Len(sections) THEN [fixtures |-> fixtures, raised |-> None]
    ELSE IF SubSeq(sections[i].name, 1, 7) # <<"F", "i", "x", "t", "u", "r", "e">>
    THEN FixturesFrom(sections, i + 1, fixtures)
    ELSE IF NewFixture(sections[i].data).raised # None
    THEN [fixtures |-> fixtures, raised |-> NewFixture(sections[i].data).raised]
    ELSE FixturesFrom(sections, i + 1, Append(fixtures, NewFixture(sections[i].data).fixture[1]))

\* TimelineGenerator.load_fixtures(fixtures_path) on a generator whose
\* fixtures are self_fixtures: self.fixtures afterwards and the exception
\* raised.  config.read skips a file it cannot open and leaves the config
\* without sections; every exception leaves as ValueError
LoadFixtures(self_fixtures, at_path) ==
    LET read == IF ~at_path.exists THEN FixturesFrom(<<>>, 1, <<>>)
                ELSE IF ~at_path.parses
                THEN [fixtures |-> <<>>, raised |-> Some("MissingSectionHeaderError")]
                ELSE FixturesFrom(at_path.sections, 1, <<>>)
    IN  IF read.raised # None
        THEN [fixtures |-> self_fixtures, raised |-> Some("ValueError")]
        ELSE [fixtures |-> read.fixtures, raised |-> None]

\* generate_dmx_timeline(analysis, fixtures_path, output_path) with the
\* default config: the outcomes of the call
GenerateDmxTimeline(analysis, fixtures_path, output_path) ==
    LET loaded == IF fixtures_path # None THEN LoadFixtures(<<>>, fixtures_path[1])
                  ELSE [fixtures |-> <<>>, raised |-> None]
    IN  IF loaded.raised # None
        THEN { [raised |-> loaded.raised, built |-> <<>>, returned |-> None, file |-> None] }
        ELSE GenerateTimeline([fixtures |-> loaded.fixtures, config |-> GenerationConfig],
                              analysis, output_path)

FixtureSections ==
    LET Options(id, name, address, model, group) ==
            [id |-> id, name |-> name, address |-> address, model |-> model, group |-> group]
    IN  { [name |-> <<"F", "i", "x", "t", "u", "r", "e", "1">>,
           data |-> Options(Some(<<"1">>), Some(<<"M", "H">>), Some(<<"1">>),
                            Some(<<"I", "n", "t", "i", "m", "i", "d", "a", "t", "o", "r">>), Some(<<"m", "o", "v", "i", "n", "g">>))],
          [name |-> <<"F", "i", "x", "t", "u", "r", "e", "2">>,
           data |-> Options(Some(<<"2">>), Some(<<"S", "p", "o", "t", "_", "#", "2">>), Some(<<"5">>),
                            Some(<<"P", "A", "R">>), None)],
          [name |-> <<"F", "i", "x", "t", "u", "r", "e", "3">>,
           data |-> Options(Some(<<"x">>), None, None, None, None)],
          [name |-> <<"F", "i", "x", "t", "u", "r", "e", "4">>,
           data |-> Options(None, None, Some(<<"6", "0", "0">>), None, None)],
          [name |-> <<"G", "e", "n", "e", "r", "a", "l">>,
           data |-> Options(None, Some(<<"s", "a", "u", "n", "a">>), None, None, None)] }

\* what can be at fixtures_path: no file, a file that does not parse, files
\* of up to two sections
FixtureFiles ==
    { [exists |-> FALSE, parses |-> FALSE, sections |-> <<>>],
      [exists |-> TRUE, parses |-> FALSE, sections |-> <<>>] }
        \cup { [exists |-> TRUE, parses |-> TRUE, sections |-> sections] :
                  sections \in {<<>>} \cup { <<s>> : s \in FixtureSections }
                      \cup { <<s, t>> : s \in FixtureSections, t \in FixtureSections } }

FixturesInit ==
    /\ job \in { [function |-> "load_fixtures", at_path |-> f] : f \in FixtureFiles }
          \cup { [function |-> "generate_dmx_timeline", at_path |-> f, analysis |-> a] :
                    f \in FixtureFiles,
                    a \in {BaseAnalysis,
                           [BaseAnalysis EXCEPT !.beats = <<FromRatio(1, 2), FromInt(1)>>]} }
    /\ runs = <<None>>
    /\ CodecIdle /\ EventIdle /\ TimelineIdle /\ ServiceIdle

\* generator.load_fixtures(fixtures_path) on a new TimelineGenerator
CallLoadFixtures ==
    /\ job.function = "load_fixtures"
    /\ runs[1] = None
    /\ runs' = <<Some(LoadFixtures(<<>>, job.at_path))>>
    /\ UNCHANGED <<job, codecVars, eventVars, timelineVars, serviceVars>>

\* generate_dmx_timeline(analysis, fixtures_path)
CallGenerateDmxTimeline ==
    /\ job.function = "generate_dmx_timeline"
    /\ runs[1] = None
    /\ \E outcome \in GenerateDmxTimeline(job.analysis, Some(job.at_path), None) :
            runs' = <<Some(outcome)>>
    /\ UNCHANGED <<job, codecVars, eventVars, timelineVars, serviceVars>>

FixturesNext == CallLoadFixtures \/ CallGenerateDmxTimeline

SpecFixtures == FixturesInit /\ [][FixturesNext]_vars

\* C20: load_fixtures, and generate_dmx_timeline with a fixtures_path,
\* called with a path at which there is no file end with an error: no
\* empty inventory is installed and no timeline is generated
C20_MissingFixtureFileIsFatal ==
    /\ runs # <<>> /\ runs[1] # None
    /\ "at_path" \in DOMAIN job /\ ~job.at_path.exists
    => runs[1][1].raised # None

(***************************************************************************)
(* Logging (your_package/logging.py, imported as dmx_analyzer.logging).    *)
(* A str is the sequence of its colon-free fragments, joined with ":":     *)
(* two strs are equal exactly when their fragment sequences are.           *)
(***************************************************************************)

\* str.upper() of a level name
Upper(level) ==
    CASE level = "info" -> "INFO"
      [] level = "debug" -> "DEBUG"
      [] OTHER -> level

\* the level attributes of the logging module; any other name has none
LoggingLevels == [DEBUG |-> 10, INFO |-> 20, WARNING |-> 30, ERROR |-> 40, CRITICAL |-> 50]

\* str(log_file) and str(rich_console) as they appear in the f-string
StrOfLogFile(log_file) == IF log_file = None THEN <<"None">> ELSE log_file[1]

StrOfBool(b) == IF b THEN <<"True">> ELSE <<"False">>

\* config_key = f"{name}:{level}:{log_file}:{rich_console}"
ConfigKey(name, level, log_file, rich_console) ==
    name \o <<level>> \o StrOfLogFile(log_file) \o StrOfBool(rich_console)

\* logging.getLogger(name): the logger of that name, created on first use with
\* level NOTSET, no handlers and propagate True
NewLogger(id) == [id |-> id, level |-> 0, handlers |-> <<>>, propagate |-> TRUE]

GetStdLogger(all, name) ==
    IF \E i \in DOMAIN all : all[i].name = name THEN all
    ELSE Append(all, [name |-> name, logger |-> NewLogger(Len(all) + 1)])

LoggerAt(all, name) == CHOOSE i \in DOMAIN all : all[i].name = name

\* the handlers one configuration attaches
ConfiguredHandlers(log_file, rich_console) ==
    <<IF rich_console THEN "RichHandler" ELSE "StreamHandler">>
        \o (IF log_file # None THEN <<"FileHandler">> ELSE <<>>)

\* get_logger: the registry, the cache and the outcome of one call
get_logger(all, configured, name, level, log_file, rich_console) ==
    LET got == GetStdLogger(all, name)
        i == LoggerAt(got, name)
        config_key == ConfigKey(name, level, log_file, rich_console)
        stripped == [got EXCEPT ![i].logger.handlers = <<>>]
        done == [got EXCEPT ![i].logger =
                    [id |-> @.id, level |-> LoggingLevels[Upper(level)],
                     handlers |-> ConfiguredHandlers(log_file, rich_console),
                     propagate |-> FALSE]]
    IN  IF config_key \in configured
        THEN [loggers |-> got, configured |-> configured, raised |-> None,
              logger |-> Some(got[i].logger)]
        ELSE IF Upper(level) \notin DOMAIN LoggingLevels
        THEN [loggers |-> stripped, configured |-> configured,
              raised |-> Some("AttributeError"), logger |-> None]
        ELSE [loggers |-> done, configured |-> configured \cup {config_key},
              raised |-> None, logger |-> Some(done[i].logger)]

\* clear_logger_cache: every logger of the manager loses its handlers
clear_logger_cache(all) ==
    [i \in DOMAIN all |-> [all[i] EXCEPT !.logger.handlers = <<>>]]

MaxCalls == 4

LevelNames == { "INFO", "DEBUG", "info", "TRACE" }

LogFiles == { None, Some(<<"x.log">>), Some(<<"DEBUG", "x.log">>) }

\* the calls made: the defaults, each argument varied, and the names and
\* paths that hold a colon
CallPool ==
    { [name |-> <<"a">>, level |-> l, log_file |-> None, rich_console |-> TRUE] :
            l \in LevelNames }
    \cup { [name |-> <<"a">>, level |-> "INFO", log_file |-> f, rich_console |-> r] :
            f \in LogFiles, r \in BOOLEAN }
    \cup { [name |-> <<"a", "INFO">>, level |-> "DEBUG", log_file |-> Some(<<"x.log">>),
            rich_console |-> TRUE],
           [name |-> <<"b">>, level |-> "DEBUG", log_file |-> None, rich_console |-> FALSE] }

LoggingInit ==
    /\ configured_loggers = {} /\ loggers = <<>> /\ returned = None /\ logger_calls = 0
    /\ job = <<>> /\ runs = <<>>
    /\ CodecIdle /\ EventIdle /\ TimelineIdle /\ PlayerIdle

CallGetLogger ==
    /\ logger_calls < MaxCalls
    /\ \E call \in CallPool :
        LET out == get_logger(loggers, configured_loggers, call.name, call.level,
                              call.log_file, call.rich_console)
        IN  /\ loggers' = out.loggers
            /\ configured_loggers' = out.configured
            /\ returned' = Some([call |-> call, raised |-> out.raised, logger |-> out.logger])
    /\ logger_calls' = logger_calls + 1
    /\ UNCHANGED <<codecVars, eventVars, timelineVars, genVars, playerVars>>

CallClearLoggerCache ==
    /\ logger_calls < MaxCalls
    /\ configured_loggers' = {}
    /\ loggers' = clear_logger_cache(loggers)
    /\ logger_calls' = logger_calls + 1
    /\ UNCHANGED <<returned, codecVars, eventVars, timelineVars, genVars, playerVars>>

LoggingNext == CallGetLogger \/ CallClearLoggerCache

SpecLogging == LoggingInit /\ [][LoggingNext]_vars

\* the last call returned a logger
Returned == returned # None /\ returned[1].logger # None

\* C21: whatever calls of get_logger and clear_logger_cache came before, the
\* logger a call of get_logger returns is the one registered under its name,
\* does not propagate, and carries at least one handler and no more than the
\* handlers its own configuration attaches.
C21_OneConfigurationOfHandlers ==
    Returned =>
        LET call == returned[1].call
            logger == returned[1].logger[1]
        IN  /\ logger.id = loggers[LoggerAt(loggers, call.name)].logger.id
            /\ logger.propagate = FALSE
            /\ Len(logger.handlers) >= 1
            /\ Len(logger.handlers) <= Len(ConfiguredHandlers(call.log_file, call.rich_console))

\* C22: the logger get_logger(name, level=L) returns has level L.
C22_ReturnedLevelIsRequested ==
    Returned =>
        returned[1].logger[1].level = LoggingLevels[Upper(returned[1].call.level)]

(***************************************************************************)
(* TimelinePlayer reading the text to_tml_format wrote.                    *)
(***************************************************************************)
\* a line "[name]" of the text: [Params] or [Event_n]
IsSectionHeader(line) == line = <<"[Params]">> \/ IsEventHeader(line)

\* section.get(key, default) on the lines of one section: the text that
\* follows "key = ", as characters
SectionGet(section, key, default) ==
    IF HasLine(section, key)
    THEN Some(Chars(Tail(section[CHOOSE l \in 1..Len(section) : section[l][1] = key])))
    ELSE default

\* int(section.get(key, 0)) if section.get(key) else None
OptionalInt(section, key) ==
    IF TruthyStr(SectionGet(section, key, None))
    THEN Some(IntOf(SectionGet(section, key, None)[1]))
    ELSE None

\* TimelinePlayer._parse_tml_file: the events of the sections Event_n other
\* than Event_0, in the order of the file
ParseTmlFile(text) ==
    LET lines == TextLines(text)
        heads == SelectSeq([i \in 1..Len(lines) |-> i],
                           LAMBDA i : IsSectionHeader(lines[i]))
        stop(at) == IF \E h \in Choice(heads) : h > at
                    THEN (CHOOSE h \in Choice(heads) :
                             h > at /\ \A g \in Choice(heads) : g > at => h <= g) - 1
                    ELSE Len(lines)
        number(at) == SubSeq(lines[at], 2, Len(lines[at]) - 1)
        wanted == SelectSeq(heads, LAMBDA at :
                    IsEventHeader(lines[at]) /\ number(at) # <<"0">>)
        event(at) ==
            LET section == SubSeq(lines, at + 1, stop(at))
            IN  [DMXEvent(IntOf(SectionGet(section, "TimeLineIndex = ", Some(<<"3">>))[1]),
                          SectionGet(section, "StartTime = ", Some(FormatTime(FZero)))[1],
                          SectionGet(section, "Path = ", Some(<<>>))[1],
                          SectionGet(section, "Length = ", None),
                          IntOf(SectionGet(section, "Speed = ", Some(<<"1", "0", "0">>))[1]),
                          PERCENTAGE,
                          OptionalInt(section, "FadeIn = "),
                          OptionalInt(section, "FadeOut = "))
                    EXCEPT !.bpm = OptionalInt(section, "BPM = ")]
    IN  [i \in 1..Len(wanted) |-> event(wanted[i])]

\* self.events.sort(key=lambda e: self._time_to_seconds(e.start_time))
SortByPlayerTime(events) ==
    LET key == [i \in 1..Len(events) |-> PlayerTimeToSeconds(events[i].start_time).returned[1]]
        rank(i) == Cardinality({j \in 1..Len(events) :
                        \/ FLess(key[j], key[i])
                        \/ j < i /\ ~FLess(key[i], key[j])})
    IN  [r \in 1..Len(events) |-> events[CHOOSE i \in 1..Len(events) : rank(i) = r - 1]]

\* TimelinePlayer._load_timeline: self.events
LoadTimeline(text) == SortByPlayerTime(ParseTmlFile(text))

\* the event with its path spelled out
Spelled(event) == [event EXCEPT !.path = Chars(event.path)]

\* C23: the events TimelinePlayer loads from the text to_tml_format wrote
\* are the events of the timeline, in the same order and with the same
\* timeline_index, start_time, path, length, speed, speed_type, fade_in,
\* fade_out, bpm and volume; the audio section Event_0 is not among them
C23_PlayerReadsBackEvents ==
    \A o \in Objs :
        o \in DOMAIN tml /\ tml[o] # None =>
            LoadTimeline(tml[o][1].text) =
                [i \in 1..Len(tml[o][1].added) |-> Spelled(tml[o][1].added[i])]

\* the same, for the fields _parse_tml_file reads and in the order of the file
ParsedFieldsAgree ==
    \A o \in Objs :
        o \in DOMAIN tml /\ tml[o] # None =>
            LET parsed_events == ParseTmlFile(tml[o][1].text)
                events == tml[o][1].added
            IN  /\ Len(parsed_events) = Len(events)
                /\ \A i \in 1..Len(events) :
                    /\ parsed_events[i].timeline_index = events[i].timeline_index
                    /\ parsed_events[i].start_time = events[i].start_time
                    /\ parsed_events[i].path = Chars(events[i].path)
                    /\ parsed_events[i].speed = events[i].speed

(***************************************************************************)
(* SpecPlayer: a TimelinePlayer driven from the main thread (play, pause,  *)
(* resume, stop, seek) while its update threads run _update_loop; the      *)
(* statements of the two sides interleave.  Times are in tenths of a       *)
(* second.                                                                 *)
(***************************************************************************)
\* the clock moves TickStep tenths at a time, up to MaxClock
TickStep == 10

MaxClock == 40

\* Thread objects play() creates
MaxThreads == 2

\* calls the main thread makes
MaxOps == 3

\* event_end = event_start + 5.0 for an event without length
DefaultDuration == 50

\* self.duration, the length of the audio loaded
AudioDuration == 30

\* TimelinePlayer._time_to_seconds, in tenths: 0.0 for a malformed string
PlayerSeconds(s) ==
    IF TimeToSecondsRaises(s) # None THEN 0
    ELSE LET parts == Split(s, ":")
             secs  == Split(parts[3], ".")
         IN  ((IntOf(parts[1]) * 60 + IntOf(parts[2])) * 60 + IntOf(secs[1])) * 10
                + (IF Len(secs) > 1 THEN IntOf(secs[2]) ELSE 0)

EventStart(event) == PlayerSeconds(event.start_time)

EventEnd(event) ==
    EventStart(event)
        + (IF TruthyStr(event.length) THEN PlayerSeconds(event.length[1]) ELSE DefaultDuration)

\* TimelinePlayer._update_active_events: the new self.active_events and the
\* light_changes handed to on_light_change, both keyed by timeline_index
update_active_events(self) ==
    LET active == {i \in 1..Len(self.events) :
                        /\ EventStart(self.events[i]) <= self.current_time
                        /\ self.current_time <= EventEnd(self.events[i])}
        indices == {self.events[i].timeline_index : i \in active}
        last(idx) == self.events[CHOOSE i \in active :
                        /\ self.events[i].timeline_index = idx
                        /\ \A j \in active : self.events[j].timeline_index = idx => j <= i]
        gone == {idx \in DOMAIN self.active_events : idx \notin indices}
    IN  [active_events |-> [idx \in indices |-> last(idx)],
         light_changes |->
            [idx \in indices \cup gone |->
                IF idx \in indices
                THEN [event |-> last(idx),
                      action |-> IF idx \notin DOMAIN self.active_events
                                 THEN "start" ELSE "update"]
                ELSE [event |-> self.active_events[idx], action |-> "end"]]]

\* what on_light_change has been handed: the last light_changes, and the
\* events reported with start or update that no end was handed for since
OnLightChange(seen, light_changes) ==
    IF DOMAIN light_changes = {} THEN seen
    ELSE [seen EXCEPT
          !.changes = light_changes,
          !.reported =
            (seen.reported
                \ {light_changes[idx].event : idx \in {i \in DOMAIN light_changes :
                                                light_changes[i].action = "end"}})
            \cup {light_changes[idx].event : idx \in {i \in DOMAIN light_changes :
                                                light_changes[i].action # "end"}}]

\* the timeline file the player is built on: two events after one another
\* on track 3 and one without length on track 4
PlayerTimeline ==
    AddAll(DMXTimeline(2, FALSE, Some(<<"song.mp3">>), Some(FormatDuration(FromInt(3)))),
           << DMXEvent(3, FormatTime(FromInt(0)), <<"solid_color/", "blue", ".scex">>,
                       Some(FormatDuration(FromInt(1))), 100, PERCENTAGE, None, None),
              DMXEvent(3, FormatTime(FromInt(1)), <<"flash/", "white", ".scex">>,
                       Some(FormatDuration(FromInt(1))), 100, PERCENTAGE, None, None),
              DMXEvent(4, FormatTime(FromInt(2)), <<"OFF">>,
                       None, 50, PERCENTAGE, None, None) >>)

\* seek(time_seconds) is called with
SeekTargets == {5, 100}

\* TimelinePlayer(timeline_path, audio_path)
TimelinePlayer(text, duration) ==
    [events |-> LoadTimeline(text), active_events |-> <<>>,
     is_playing |-> FALSE, start_time |-> 0, current_time |-> 0,
     duration |-> duration, update_thread |-> None, stop_event |-> FALSE]

PlayerInit ==
    /\ player = TimelinePlayer(to_tml_format(PlayerTimeline), AudioDuration)
    /\ clock = 0
    /\ threads = [main |-> [pc |-> "idle", was_playing |-> FALSE, time_seconds |-> 0,
                            done |-> <<>>, ops |-> 0, paused |-> {}],
                  loops |-> <<>>]
    /\ delivered = [changes |-> <<>>, reported |-> {}, fresh |-> FALSE]
    /\ job = <<>> /\ runs = <<>>
    /\ CodecIdle /\ EventIdle /\ TimelineIdle /\ LoggingIdle

Others == <<codecVars, eventVars, timelineVars, genVars, loggingVars>>

\* the last two calls of the main thread that took effect
Done(name) ==
    LET done == threads.main.done
    IN  IF done = <<>> THEN <<name>> ELSE <<done[Len(done)], name>>

\* the update threads whose _update_loop has not returned
Alive == {t \in DOMAIN threads.loops : threads.loops[t].pc \notin {"over", "error"}}

\* the main thread is between two calls and makes another one
MainIdle == threads.main.pc = "idle" /\ threads.main.ops < MaxOps

\* self._update_active_events() with the callback it makes
UpdateActiveEvents(self) ==
    LET out == update_active_events(self)
    IN  /\ player' = [self EXCEPT !.active_events = out.active_events]
        /\ delivered' = [OnLightChange(delivered, out.light_changes) EXCEPT !.fresh = TRUE]

\* time.time() moves on
Tick ==
    /\ clock < MaxClock
    /\ clock' = clock + TickStep
    /\ UNCHANGED <<player, threads, delivered, Others>>

\* player.play()
Play ==
    /\ MainIdle
    /\ IF player.is_playing
       THEN /\ player' = player
            /\ threads' = [threads EXCEPT !.main.ops = @ + 1]
       ELSE /\ Len(threads.loops) < MaxThreads
            /\ player' = [player EXCEPT !.is_playing = TRUE, !.start_time = clock,
                                        !.stop_event = FALSE,
                                        !.update_thread = Some(Len(threads.loops) + 1)]
            /\ threads' = [threads EXCEPT
                            !.loops = Append(@, [pc |-> "while", after_stop |-> None]),
                            !.main.done = Done("play"), !.main.ops = @ + 1]
    /\ UNCHANGED <<clock, delivered, Others>>

\* player.pause()
Pause ==
    /\ MainIdle
    /\ IF ~player.is_playing
       THEN /\ player' = player
            /\ threads' = [threads EXCEPT !.main.ops = @ + 1]
       ELSE /\ player' = [player EXCEPT !.is_playing = FALSE]
            /\ threads' = [threads EXCEPT !.main.done = Done("pause"), !.main.ops = @ + 1,
                                          !.main.paused = Alive]
    /\ UNCHANGED <<clock, delivered, Others>>

\* player.resume()
Resume ==
    /\ MainIdle
    /\ IF player.is_playing
       THEN /\ player' = player
            /\ threads' = [threads EXCEPT !.main.ops = @ + 1]
       ELSE /\ player' = [player EXCEPT !.is_playing = TRUE,
                                        !.start_time = clock - player.current_time]
            /\ threads' = [threads EXCEPT !.main.done = Done("resume"), !.main.ops = @ + 1]
    /\ UNCHANGED <<clock, delivered, Others>>

\* player.stop() from the main thread, up to the join
Stop ==
    /\ MainIdle
    /\ player' = [player EXCEPT !.is_playing = FALSE, !.stop_event = TRUE]
    /\ threads' = [threads EXCEPT !.main.pc = "join", !.main.ops = @ + 1]
    /\ UNCHANGED <<clock, delivered, Others>>

\* the join returns, the update thread over or the timeout of 1.0 s elapsed,
\* and stop() resets the position
StopJoined ==
    /\ threads.main.pc = "join"
    /\ player' = [player EXCEPT !.current_time = 0, !.active_events = <<>>]
    /\ threads' = [threads EXCEPT !.main.pc = "idle", !.main.done = Done("stop")]
    /\ delivered' = [delivered EXCEPT !.fresh = FALSE]
    /\ UNCHANGED <<clock, Others>>

\* player.seek(time_seconds): was_playing = self.is_playing, and pause()
SeekPause(time_seconds) ==
    /\ MainIdle
    /\ player' = [player EXCEPT !.is_playing = FALSE]
    /\ threads' = [threads EXCEPT !.main.pc = "seek_time", !.main.ops = @ + 1,
                                  !.main.was_playing = player.is_playing,
                                  !.main.time_seconds = time_seconds]
    /\ UNCHANGED <<clock, delivered, Others>>

\* self.current_time = max(0, min(time_seconds, self.duration))
SeekTime ==
    /\ threads.main.pc = "seek_time"
    /\ LET least == IF threads.main.time_seconds < player.duration
                    THEN threads.main.time_seconds ELSE player.duration
       IN  player' = [player EXCEPT !.current_time = IF 0 > least THEN 0 ELSE least]
    /\ threads' = [threads EXCEPT !.main.pc = "seek_update"]
    /\ UNCHANGED <<clock, delivered, Others>>

\* self._update_active_events() of seek
SeekUpdate ==
    /\ threads.main.pc = "seek_update"
    /\ UpdateActiveEvents(player)
    /\ threads' = [threads EXCEPT !.main.pc = "seek_start"]
    /\ UNCHANGED <<clock, Others>>

\* if was_playing: self.start_time = time.time() - self.current_time
SeekStartTime ==
    /\ threads.main.pc = "seek_start"
    /\ IF threads.main.was_playing
       THEN /\ player' = [player EXCEPT !.start_time = clock - player.current_time]
            /\ threads' = [threads EXCEPT !.main.pc = "seek_playing"]
       ELSE /\ player' = player
            /\ threads' = [threads EXCEPT !.main.pc = "idle", !.main.done = Done("seek")]
    /\ UNCHANGED <<clock, delivered, Others>>

\* self.is_playing = True, and seek returns
SeekPlaying ==
    /\ threads.main.pc = "seek_playing"
    /\ player' = [player EXCEPT !.is_playing = TRUE]
    /\ threads' = [threads EXCEPT !.main.pc = "idle", !.main.done = Done("seek")]
    /\ UNCHANGED <<clock, delivered, Others>>

\* while not self.stop_event.is_set() and self.is_playing
LoopWhile(t) ==
    /\ t \in DOMAIN threads.loops
    /\ threads.loops[t].pc = "while"
    /\ threads' = [threads EXCEPT !.loops[t].pc =
                        IF ~player.stop_event /\ player.is_playing THEN "time" ELSE "over"]
    /\ UNCHANGED <<player, clock, delivered, Others>>

\* self.current_time = time.time() - self.start_time
LoopTime(t) ==
    /\ t \in DOMAIN threads.loops
    /\ threads.loops[t].pc = "time"
    /\ player' = [player EXCEPT !.current_time = clock - player.start_time]
    /\ threads' = [threads EXCEPT !.loops[t].pc = "end"]
    /\ UNCHANGED <<clock, delivered, Others>>

\* if self.current_time >= self.duration
LoopEnd(t) ==
    /\ t \in DOMAIN threads.loops
    /\ threads.loops[t].pc = "end"
    /\ threads' = [threads EXCEPT !.loops[t].pc =
                        IF player.current_time >= player.duration THEN "stop" ELSE "update"]
    /\ UNCHANGED <<player, clock, delivered, Others>>

\* self.stop() called by the update thread, and the break: joining the
\* thread that runs raises RuntimeError, joining another one returns
LoopStop(t) ==
    /\ t \in DOMAIN threads.loops
    /\ threads.loops[t].pc = "stop"
    /\ IF player.update_thread = Some(t)
       THEN /\ player' = [player EXCEPT !.is_playing = FALSE, !.stop_event = TRUE]
            /\ threads' = [threads EXCEPT
                    !.loops[t] = [pc |-> "error",
                                  after_stop |-> Some([raised |-> Some("RuntimeError"),
                                                       self |-> player'])]]
            /\ UNCHANGED delivered
       ELSE /\ player' = [player EXCEPT !.is_playing = FALSE, !.stop_event = TRUE,
                                        !.current_time = 0, !.active_events = <<>>]
            /\ threads' = [threads EXCEPT
                    !.loops[t] = [pc |-> "over",
                                  after_stop |-> Some([raised |-> None, self |-> player'])]]
            /\ delivered' = [delivered EXCEPT !.fresh = FALSE]
    /\ UNCHANGED <<clock, Others>>

\* self._update_active_events() of the loop, and the sleep
LoopUpdate(t) ==
    /\ t \in DOMAIN threads.loops
    /\ threads.loops[t].pc = "update"
    /\ UpdateActiveEvents(player)
    /\ threads' = [threads EXCEPT !.loops[t].pc = "while"]
    /\ UNCHANGED <<clock, Others>>

PlayerNext ==
    \/ Tick
    \/ Play
    \/ Pause
    \/ Resume
    \/ Stop
    \/ StopJoined
    \/ \E time_seconds \in SeekTargets : SeekPause(time_seconds)
    \/ SeekTime
    \/ SeekUpdate
    \/ SeekStartTime
    \/ SeekPlaying
    \/ \E t \in 1..MaxThreads : LoopWhile(t)
    \/ \E t \in 1..MaxThreads : LoopTime(t)
    \/ \E t \in 1..MaxThreads : LoopEnd(t)
    \/ \E t \in 1..MaxThreads : LoopStop(t)
    \/ \E t \in 1..MaxThreads : LoopUpdate(t)

SpecPlayer == PlayerInit /\ [][PlayerNext]_vars

\* the events self.active_events holds
ActiveNow == {player.active_events[idx] : idx \in DOMAIN player.active_events}

\* C24: once _update_active_events has run, every event that was reported
\* to on_light_change with start or update and is not active any more has
\* been reported with end: the events reported and not ended are active.
C24_EndForEveryEndedEvent ==
    delivered.fresh => delivered.reported \subseteq ActiveNow

\* C25: after pause() of a running playback and then resume() an update
\* loop is running: the player is_playing and a thread is in _update_loop
\* to advance current_time.
C25_ResumeKeepsLoopRunning ==
    /\ threads.main.done = <<"pause", "resume">>
    /\ threads.main.paused # {}
    /\ threads.main.pc = "idle"
    /\ player.is_playing
    => Alive # {}

\* C26: when seek() has returned on a player that was playing, exactly one
\* update loop is alive, whatever the update thread did meanwhile.
C26_SeekKeepsOneLoop ==
    /\ threads.main.done # <<>>
    /\ threads.main.done[Len(threads.main.done)] = "seek"
    /\ threads.main.was_playing
    /\ threads.main.pc = "idle"
    /\ player.is_playing
    => Cardinality(Alive) = 1

\* C27: the stop() the update loop calls at the end of the track runs to
\* completion: no exception, is_playing False, current_time 0.0 and no
\* active event when it returns.
C27_StopFromLoopCompletes ==
    \A t \in DOMAIN threads.loops :
        threads.loops[t].after_stop # None =>
            LET after == threads.loops[t].after_stop[1]
            IN  /\ after.raised = None
                /\ ~after.self.is_playing
                /\ after.self.current_time = 0
                /\ after.self.active_events = <<>>

\* the timeline_index values of the events a run returned
TracksOf(run) == {EventsOf(run)[i].timeline_index : i \in 1..Len(EventsOf(run))}

\* C28: every event of a timeline either generator returns lies on a light
\* track of that timeline: 3 <= timeline_index <= light_timelines + 2
C28_EventsOnLightTracks ==
    \A r \in Runs :
        Completed(r) /\ runs[r][1].returned # None =>
            \A index \in TracksOf(runs[r][1]) :
                3 <= index /\ index <= runs[r][1].returned[1].light_timelines + 2

\* a run returned events on the first and on the last light track
C28_Witness ==
    \E r \in Runs :
        /\ Completed(r) /\ runs[r][1].returned # None
        /\ 3 \in TracksOf(runs[r][1])
        /\ runs[r][1].returned[1].light_timelines + 2 \in TracksOf(runs[r][1])

\* the Length values of the events a run returned
LengthsOf(run) ==
    {EventsOf(run)[i].length[1] : i \in {k \in 1..Len(EventsOf(run)) :
                                            EventsOf(run)[k].length # None}}

\* a string H:MM:SS.f of a duration that is not negative
NonNegativeDuration(s) ==
    /\ TimeParses(s)
    /\ \A i \in 1..Len(s) : s[i] # "-"

\* C29: for every analysis with duration > 0, tracks shorter than 10 s
\* included, the Length of every event a generator returns is the
\* H:MM:SS.f string of a non-negative duration
C29_LengthsNonNegative ==
    \A r \in Runs :
        Completed(r) /\ job.analysis.duration > 0 =>
            \A length \in LengthsOf(runs[r][1]) : NonNegativeDuration(length)

(***************************************************************************)
(* SpecEnergy: TimelineGenerator._generate_energy_events called on tracks  *)
(* whose onsets are in time order, with the default energy_threshold and a *)
(* higher one.                                                             *)
(***************************************************************************)
\* onsets of one analysis
MaxOnsets == 4

\* onset times, in tenths of a second: in the loud first quarter of the
\* track, in the medium second, the quiet third and the loud last one
OnsetTenths == {0, 3, 5, 10, 15, 19}

\* the onset sequences in time order, equal onsets included
RECURSIVE OnsetSequences(_)
OnsetSequences(n) ==
    IF n = 0 THEN {<<>>}
    ELSE OnsetSequences(n - 1)
         \cup { Append(s, t) : s \in {q \in OnsetSequences(n - 1) : Len(q) = n - 1},
                               t \in OnsetTenths }

InTimeOrder(s) == \A i \in 1..(Len(s) - 1) : s[i] <= s[i + 1]

EnergyJobs ==
    { [self |-> [fixtures |-> <<>>,
                 config |-> [GenerationConfig EXCEPT !.energy_threshold = threshold]],
       analysis |-> [BaseAnalysis EXCEPT
                        !.duration = 2,
                        !.spectral_centroids = <<1000, 600, 400, 1000>>,
                        !.onset_times = [i \in 1..Len(s) |-> FromRatio(s[i], 10)]]] :
        threshold \in {FromRatio(5, 10), FromRatio(6, 10)},
        s \in {q \in OnsetSequences(MaxOnsets) : InTimeOrder(q)} }

EnergyInit ==
    /\ job \in EnergyJobs
    /\ runs = <<None>>
    /\ CodecIdle /\ EventIdle /\ TimelineIdle /\ ServiceIdle

\* self._generate_energy_events(analysis)
CallGenerateEnergyEvents ==
    /\ runs[1] = None
    /\ \E outcome \in GenerateEnergyEvents(job.self, job.analysis) :
        runs' = <<Some(outcome)>>
    /\ UNCHANGED <<job, codecVars, eventVars, timelineVars, serviceVars>>

EnergyNext == CallGenerateEnergyEvents

SpecEnergy == EnergyInit /\ [][EnergyNext]_vars

\* the onset an emitted event stands at
OnsetOf(event) ==
    CHOOSE t \in Choice(job.analysis.onset_times) : FormatTime(t) = event.start_time

\* the onsets whose energy is not above the threshold
QuietOnsets ==
    {t \in Choice(job.analysis.onset_times) :
        ~FLess(job.self.config.energy_threshold, GetEnergyAtTime(job.analysis, t))}

\* C30: for onset times in time order, any two events _generate_energy_events
\* returns (tracks 5 and 6 together) stand at onsets at least
\* min_event_duration apart, and no event stands at an onset whose energy is
\* not above energy_threshold
C30_EnergyEventsApart ==
    runs # <<>> /\ runs[1] # None =>
        LET events == runs[1][1].events
        IN  /\ \A a, b \in 1..Len(events) :
                a < b => ~FLess(FSub(OnsetOf(events[b]), OnsetOf(events[a])),
                                job.self.config.min_event_duration)
            /\ \A i \in 1..Len(events) :
                /\ events[i].timeline_index \in {5, 6}
                /\ OnsetOf(events[i]) \notin QuietOnsets

\* a call on four different onsets returned two events: one onset was not
\* above the threshold and one too close to the onset before it
C30_Witness ==
    /\ runs # <<>> /\ runs[1] # None
    /\ Cardinality(Choice(job.analysis.onset_times)) = 4
    /\ Cardinality(QuietOnsets) = 1
    /\ Len(runs[1][1].events) = 2

=============================================================================
